---- MODULE Spec2Model ----
(***************************************************************************)
(* Generic LSP proxy: the client supervisor (LspProxyManager) and the      *)
(* configuration resolver (ConfigurationManager).                          *)
(*                                                                         *)
(* The supervisor runs on a single-threaded event loop.  Every action of   *)
(* this module is one turn of that loop: the synchronous part of a public  *)
(* operation up to its first await, the continuation of an await, a state  *)
(* change event of a language client, or a restart timer firing.           *)
(*                                                                         *)
(* Specifications:                                                         *)
(*   Spec          one identity, one document, every supervisor action     *)
(*   SpecEnsure    two identities, two documents, starts that succeed      *)
(*   SpecFail      one identity whose starts all fail (counts restarts)    *)
(*   SpecResolver  the resolver alone: loads split at their file reads,    *)
(*                 lookups, disabling and enabling                         *)
(*   SpecStopAll   two identities with stopAllClients, no automatic restart*)
(*   SpecRestart   one identity with restartClient and a loaded resolver   *)
(*   SpecList      two identities with getActiveServers                    *)
(*   SpecCrash     one identity, two configs, restart timers that fire     *)
(*   SpecTcp       createServerOptions, its connector and its sockets      *)
(*   SpecReload    open documents, edited files and the reload command     *)
(*   SpecOneFailure  one start that fails, restarts that do not            *)
(*   SpecLoads     a loaded resolver, loads that overlap, and lookups      *)
(*   SpecDocs      one identity, two documents, every supervisor action    *)
(* `last` records what the latest supervisor turn was and did; `resolved`  *)
(* records the latest resolver call and its result.                        *)
(***************************************************************************)
EXTENDS Integers, Sequences, FiniteSets, TLC

\* ------------------------------------------------------------------ bounds
\* Number of LanguageClient objects of one identity that may be alive at once
\* (referenced by the supervisor, or still able to report a state change).
MaxClients == 2
\* Number of stopClient calls of one identity that may be suspended on
\* client.stop() at once.
MaxStops == 1
\* Automatic restarts counted per identity in a run where every start fails.
MaxAttempts == 4
\* loadConfiguration calls in flight at once.
MaxLoads == 1
\* Sockets the connector of a tcp configuration may open in a run.
MaxSockets == 3
\* loadConfiguration calls in flight at once where loads overlap.
MaxOverlap == 2

\* ------------------------------------------------------------- constants
\* scheduleRestart gives up when restartCount >= 3.
MaxRestarts == 3

\* Connection identities (languageId values) and document URIs.
Langs == {"a", "b"}
Docs == {"d1", "d2"}
\* The identity and the document of the full interleaving specification.
MainLangs == {"a"}
MainDocs == {"d1"}
\* startClient called without a document (restart timer, restartClient).
NoDoc == "none"

\* The configurations the supervisor is handed, one per identity.
SupConfigs ==
  { [languageId |-> "a", command |-> "srv-a"],
    [languageId |-> "b", command |-> "srv-b"] }

\* A LanguageClient object: the identity it was built for and a slot number.
ClientIds == Langs \X (1..MaxClients)

\* ------------------------------------------------------------------ state
VARIABLES
  clients,          \* Map<languageId, ClientInfo>: languageId -> client id
  clientOrder,      \* the keys of clients in insertion order
  info,             \* the ClientInfo objects, by the id of their client
  documentTracking, \* Map<languageId, Set<uri>>
  restartTimers,    \* Map<languageId, Timeout>: "live" or "fired" handle
  liveTimers,       \* timers the runtime still holds, per languageId
  lib,              \* state of each LanguageClient inside the library
  startP,           \* startClient calls suspended on client.start()
  stops,            \* stopClient calls suspended on client.stop()
  autoRestart,      \* setting genericLspProxy.autoRestart
  last,             \* the last turn: operation, identity, and its effects
  attempts,         \* history: automatic restarts per identity since the
                    \* last start asked for by ensureClientForConfig
  stopAllCall,      \* the stopAllClients call: what its Promise.all awaits
  restartCalls,     \* restartClient calls suspended on their stopClient
  servers,          \* the array the last getActiveServers call returned
  serverOptions,    \* what the last createServerOptions call returned
  sockets,          \* the sockets net.connect has made, in order
  streams,          \* the promises the connector has returned, per socket
  built,            \* the last createServerOptions, connector or socket turn
  reloadCmd         \* how far the reload command has come

\* The resolver (ConfigurationManager) and what it reads.
VARIABLES
  configs,            \* LSPServerConfig[]: the loaded configurations
  fileExtensionMap,   \* Map<extension, config>: extension -> index in configs
  languageIdMap,      \* Map<languageId, config>: languageId -> index
  disabledLspConfigs, \* workspaceState 'disabledLspConfigs'
  workspaceFolders,   \* vscode.workspace.workspaceFolders (<< >>: undefined)
  files,              \* the configuration files on disk, by source
  loading,            \* loadConfiguration calls awaiting a file, by source
  resolved            \* the last lookup and what it returned

supVars == << clients, clientOrder, info, documentTracking, restartTimers,
              liveTimers, lib, startP, stops, autoRestart, last, attempts,
              stopAllCall, restartCalls, servers,
              serverOptions, sockets, streams, built, reloadCmd >>
tcpVars == << serverOptions, sockets, streams, built >>
resVars == << configs, fileExtensionMap, languageIdMap, disabledLspConfigs,
              workspaceFolders, files, loading, resolved >>
vars == << supVars, resVars >>

\* A ClientInfo slot whose client has not been constructed yet.
NoInfo ==
  [config |-> [languageId |-> "", command |-> ""], status |-> "none",
   documentCount |-> 0, restartCount |-> 0, lastError |-> "none"]

\* What one turn did, besides changing the maps.
NoOut ==
  [started |-> FALSE, emitted |-> FALSE, scheduled |-> FALSE,
   canceled |-> FALSE, gaveUp |-> FALSE]

\* The supervisor's mutable state, threaded through the helper operators.
Cur ==
  [clients |-> clients, clientOrder |-> clientOrder, info |-> info,
   documentTracking |-> documentTracking,
   restartTimers |-> restartTimers, liveTimers |-> liveTimers, lib |-> lib,
   startP |-> startP, stops |-> stops, out |-> NoOut]

\* A ClientInfo object the clients map no longer holds: nothing reads it
\* again (the suspended startClient that created it only writes its status).
Unmapped(M, c) == \A l \in DOMAIN M.clients : M.clients[l] # c

\* A LanguageClient nothing refers to any more: it is stopped, no call is
\* suspended on it and the clients map holds another record.
Garbage(M, c) ==
  /\ M.lib[c] = "stopped"
  /\ M.startP[c].state # "pending"
  /\ Unmapped(M, c)
  /\ \A t \in M.stops : t.client # c

NoStart == [state |-> "none", doc |-> NoDoc]
\* No stopAllClients call was made yet.  state: "pending" while Promise.all
\* waits; keys: the identities of the clients map when it was called;
\* waits: the stopClient calls not settled yet; alone: no ensure, start or
\* restart took a turn while it was pending.
NoStopAll == [state |-> "none", keys |-> {}, waits |-> {}, alone |-> TRUE]

\* Unreferenced objects are dropped; their slots can hold new clients.
Collect(M) ==
  [M EXCEPT
     !.info = [c \in ClientIds |-> IF Unmapped(M, c) THEN NoInfo ELSE @[c]],
     !.lib = [c \in ClientIds |-> IF Garbage(M, c) THEN "none" ELSE @[c]],
     !.startP = [c \in ClientIds |-> IF Garbage(M, c) THEN NoStart ELSE @[c]]]

Commit(M) ==
  LET G == Collect(M)
  IN /\ clients' = G.clients
     /\ clientOrder' = G.clientOrder
     /\ info' = G.info
     /\ documentTracking' = G.documentTracking
     /\ restartTimers' = G.restartTimers
     /\ liveTimers' = G.liveTimers
     /\ lib' = G.lib
     /\ startP' = G.startP
     /\ stops' = G.stops

\* Map.set and Map.delete on a function whose domain is the key set.
MapSet(f, k, v) == [x \in DOMAIN f \cup {k} |-> IF x = k THEN v ELSE f[x]]
MapDelete(f, k) == [x \in DOMAIN f \ {k} |-> f[x]]
\* The insertion order of a Map's keys after set and after delete.
OrderSet(order, k) ==
  IF \E i \in 1..Len(order) : order[i] = k THEN order ELSE Append(order, k)
OrderDelete(order, k) == SelectSeq(order, LAMBDA x : x # k)

\* ------------------------------------------------------- helper methods
TrackDocument(M, languageId, documentUri) ==
  LET old == IF languageId \in DOMAIN M.documentTracking
             THEN M.documentTracking[languageId] ELSE {}
      dt == MapSet(M.documentTracking, languageId, old \cup {documentUri})
  IN [M EXCEPT
        !.documentTracking = dt,
        !.info = IF languageId \in DOMAIN M.clients
                 THEN [@ EXCEPT ![M.clients[languageId]].documentCount =
                                   Cardinality(dt[languageId])]
                 ELSE @]

CancelRestart(M, languageId) ==
  IF languageId \in DOMAIN M.restartTimers
  THEN LET wasLive == M.restartTimers[languageId] = "live"
       IN [M EXCEPT
             !.liveTimers[languageId] = IF wasLive THEN @ - 1 ELSE @,
             !.restartTimers = MapDelete(@, languageId),
             !.out.canceled = @ \/ wasLive]
  ELSE M

\* Mutant of ScheduleRestart: the autoRestart setting is not read.
ScheduleRestart_Always(M, languageId) ==
  IF \/ languageId \notin DOMAIN M.clients
     \/ M.info[M.clients[languageId]].restartCount >= MaxRestarts
  THEN [M EXCEPT !.out.gaveUp = TRUE]
  ELSE LET M1 == CancelRestart(M, languageId)
       IN [M1 EXCEPT
             !.liveTimers[languageId] = @ + 1,
             !.restartTimers = MapSet(@, languageId, "live"),
             !.out.scheduled = TRUE]

\* Mutant of ScheduleRestart: the pending timer is not cleared.
ScheduleRestart_Stacked(M, languageId) ==
  IF ~autoRestart THEN M
  ELSE IF \/ languageId \notin DOMAIN M.clients
          \/ M.info[M.clients[languageId]].restartCount >= MaxRestarts
  THEN [M EXCEPT !.out.gaveUp = TRUE]
  ELSE [M EXCEPT
          !.liveTimers[languageId] = @ + 1,
          !.restartTimers = MapSet(@, languageId, "live"),
          !.out.scheduled = TRUE]

\* Mutant of ScheduleRestart: no timer is set.
ScheduleRestart_Never(M, languageId) == M

ScheduleRestart(M, languageId) ==
  IF ~autoRestart THEN M
  ELSE IF \/ languageId \notin DOMAIN M.clients
          \/ M.info[M.clients[languageId]].restartCount >= MaxRestarts
  THEN [M EXCEPT !.out.gaveUp = TRUE]
  ELSE LET M1 == CancelRestart(M, languageId)
       IN [M1 EXCEPT
             !.liveTimers[languageId] = @ + 1,
             !.restartTimers = MapSet(@, languageId, "live"),
             !.out.scheduled = TRUE]

\* Mutant of HandleClientStateChange: the running branch does not cancel
\* the pending restart timer.
HandleClientStateChange_NoCancel(M, languageId, newState) ==
  IF languageId \notin DOMAIN M.clients THEN M
  ELSE LET c == M.clients[languageId]
           M1 == CASE newState = 2 ->
                        [M EXCEPT !.info[c].status = "running",
                                  !.info[c].restartCount = 0]
                   [] newState = 1 ->
                        [M EXCEPT !.info[c].status = "starting"]
                   [] newState = 3 ->
                        ScheduleRestart(
                          [M EXCEPT !.info[c].status = "stopped"],
                          languageId)
                   [] OTHER -> M
       IN [M1 EXCEPT !.out.emitted = TRUE]

\* Mutant of HandleClientStateChange: an event for an identity without a
\* record is announced to the listeners all the same.
HandleClientStateChange_Announce(M, languageId, newState) ==
  IF languageId \notin DOMAIN M.clients THEN [M EXCEPT !.out.emitted = TRUE]
  ELSE LET c == M.clients[languageId]
           M1 == CASE newState = 2 ->
                        CancelRestart(
                          [M EXCEPT !.info[c].status = "running",
                                    !.info[c].restartCount = 0],
                          languageId)
                   [] newState = 1 ->
                        [M EXCEPT !.info[c].status = "starting"]
                   [] newState = 3 ->
                        ScheduleRestart(
                          [M EXCEPT !.info[c].status = "stopped"],
                          languageId)
                   [] OTHER -> M
       IN [M1 EXCEPT !.out.emitted = TRUE]

HandleClientStateChange(M, languageId, newState) ==
  IF languageId \notin DOMAIN M.clients THEN M
  ELSE LET c == M.clients[languageId]
           M1 == CASE newState = 2 ->
                        CancelRestart(
                          [M EXCEPT !.info[c].status = "running",
                                    !.info[c].restartCount = 0],
                          languageId)
                   [] newState = 1 ->
                        [M EXCEPT !.info[c].status = "starting"]
                   [] newState = 3 ->
                        ScheduleRestart(
                          [M EXCEPT !.info[c].status = "stopped"],
                          languageId)
                   [] OTHER -> M
       IN [M1 EXCEPT !.out.emitted = TRUE]

\* The slot of the next LanguageClient constructed for languageId.
HasSlot(M, languageId) ==
  \E k \in 1..MaxClients : M.lib[<< languageId, k >>] = "none"

NewClient(M, languageId) ==
  << languageId,
     CHOOSE k \in 1..MaxClients :
       /\ M.lib[<< languageId, k >>] = "none"
       /\ \A j \in 1..(k - 1) : M.lib[<< languageId, j >>] # "none" >>

\* Mutant of StartClient: a new record starts with an empty document set.
StartClient_FreshSet(M, config, document, announce) ==
  LET c == NewClient(M, config.languageId)
      M1 == [M EXCEPT
               !.info[c] = [config |-> config, status |-> "starting",
                            documentCount |-> 0, restartCount |-> 0,
                            lastError |-> "none"],
               !.clients = MapSet(@, config.languageId, c),
               !.clientOrder = OrderSet(@, config.languageId),
               !.documentTracking = MapDelete(@, config.languageId),
               !.lib[c] = "starting",
               !.startP[c] = [state |-> "pending", doc |-> document],
               !.out.started = TRUE]
  IN IF announce THEN HandleClientStateChange(M1, config.languageId, 1)
     ELSE M1

\* startClient up to `await client.start()`.  announce: the library fires
\* the "starting" state change synchronously inside client.start().
StartClient(M, config, document, announce) ==
  LET c == NewClient(M, config.languageId)
      M1 == [M EXCEPT
               !.info[c] = [config |-> config, status |-> "starting",
                            documentCount |-> 0, restartCount |-> 0,
                            lastError |-> "none"],
               !.clients = MapSet(@, config.languageId, c),
               !.clientOrder = OrderSet(@, config.languageId),
               !.lib[c] = "starting",
               !.startP[c] = [state |-> "pending", doc |-> document],
               !.out.started = TRUE]
  IN IF announce THEN HandleClientStateChange(M1, config.languageId, 1)
     ELSE M1

\* startClient after `await client.start()` resolved.
StartSucceeded(M, c) ==
  LET languageId == c[1]
      document == M.startP[c].doc
      M1 == [M EXCEPT !.info[c].status = "running",
                      !.startP[c] = [state |-> "done", doc |-> NoDoc]]
      M2 == IF document # NoDoc THEN TrackDocument(M1, languageId, document)
            ELSE M1
  IN [M2 EXCEPT !.out.emitted = TRUE]

\* Mutant of StartFailed: the failure removes the identity's record.
StartFailed_Remove(M, c) ==
  LET languageId == c[1]
      M1 == [M EXCEPT !.startP[c] = [state |-> "done", doc |-> NoDoc],
                      !.lib[c] = "stopped"]
  IN [M1 EXCEPT !.clients = MapDelete(@, languageId),
                !.clientOrder = OrderDelete(@, languageId)]

\* startClient's catch block, after `await client.start()` rejected.
StartFailed(M, c) ==
  LET languageId == c[1]
      M1 == [M EXCEPT !.startP[c] = [state |-> "done", doc |-> NoDoc],
                      !.lib[c] = "stopped"]
  IN IF languageId \in DOMAIN M1.clients
     THEN ScheduleRestart(
            [M1 EXCEPT !.info[M1.clients[languageId]].status = "error",
                       !.info[M1.clients[languageId]].lastError = "err"],
            languageId)
     ELSE M1

\* client.needsStop(): the client is starting or running.
NeedsStop(M, c) == M.lib[c] \in {"starting", "running"}

\* Mutant of RemoveClient: an error thrown by client.stop() escapes
\* stopClient before the bookkeeping is removed.
RemoveClient_Rethrow(M, languageId, threw) ==
  IF threw THEN M
  ELSE [M EXCEPT !.clients = MapDelete(@, languageId),
                 !.clientOrder = OrderDelete(@, languageId),
                 !.documentTracking = MapDelete(@, languageId),
                 !.out.emitted = TRUE]

\* stopClient after the try/catch around needsStop() and client.stop():
\* an error thrown there is logged, and the bookkeeping is removed anyway.
RemoveClient(M, languageId, threw) ==
  [M EXCEPT !.clients = MapDelete(@, languageId),
            !.clientOrder = OrderDelete(@, languageId),
            !.documentTracking = MapDelete(@, languageId),
            !.out.emitted = TRUE]

\* stopClient up to `await client.stop()`, or to its end when the client
\* needs no stop or there is no record.
StopClient(M, languageId) ==
  IF languageId \notin DOMAIN M.clients THEN M
  ELSE LET c == M.clients[languageId]
           M1 == CancelRestart(M, languageId)
       IN IF NeedsStop(M1, c)
          THEN [M1 EXCEPT !.stops = @ \cup
                            {[lang |-> languageId, client |-> c]}]
          ELSE RemoveClient(M1, languageId, FALSE)

\* stopAllClients up to `await Promise.all(promises)`: stopClient is called
\* for each key of the clients map in turn.  A stopClient that deletes its
\* key on the spot does not disturb the iteration over the others.
RECURSIVE StopAllClients(_, _)
StopAllClients(M, keys) ==
  IF keys = << >> THEN M
  ELSE StopAllClients(StopClient(M, Head(keys)), Tail(keys))

\* Mutant of GetActiveServers: only the records of running clients.
GetActiveServers_Running ==
  LET running == SelectSeq(clientOrder,
                           LAMBDA l : info[clients[l]].status = "running")
  IN [i \in 1..Len(running) |->
        [languageId |-> running[i],
         command |-> info[clients[running[i]]].config.command,
         status |-> info[clients[running[i]]].status,
         documentCount |-> info[clients[running[i]]].documentCount]]

\* getActiveServers: one entry per record, in the map's insertion order.
GetActiveServers ==
  [i \in 1..Len(clientOrder) |->
     [languageId |-> clientOrder[i],
      command |-> info[clients[clientOrder[i]]].config.command,
      status |-> info[clients[clientOrder[i]]].status,
      documentCount |-> info[clients[clientOrder[i]]].documentCount]]

\* Mutant of Absorbs: status "starting" does not absorb.
Absorbs_RunningOnly(M, languageId) ==
  /\ languageId \in DOMAIN M.clients
  /\ M.info[M.clients[languageId]].status = "running"

\* ensureClientForConfig: whether the existing record absorbs the document.
Absorbs(M, languageId) ==
  /\ languageId \in DOMAIN M.clients
  /\ \/ M.info[M.clients[languageId]].status = "running"
     \/ M.info[M.clients[languageId]].status = "starting"

\* ensureClientForConfig up to its first await.
EnsureClientForConfig(M, config, document, announce) ==
  IF Absorbs(M, config.languageId)
  THEN TrackDocument(M, config.languageId, document)
  ELSE StartClient(M, config, document, announce)

\* The restart timer's callback.
RestartTimerCallback(M, languageId, announce) ==
  IF languageId \in DOMAIN M.clients
  THEN LET c == M.clients[languageId]
       IN StartClient([M EXCEPT !.info[c].restartCount = @ + 1],
                      M.info[c].config, NoDoc, announce)
  ELSE M

\* ============================================================== resolver
\* Strings the resolver takes apart (paths, extensions, glob patterns) are
\* sequences of characters; identifiers it only compares are strings.
Undefined == << "undefined" >>
Truthy(str) == str # Undefined /\ str # << >>

StartsWith(str, prefix) ==
  /\ Len(prefix) <= Len(str)
  /\ SubSeq(str, 1, Len(prefix)) = prefix

\* Index of the last occurrence of ch in str, 0 when there is none.
LastIndexOf(str, ch) ==
  IF \E i \in 1..Len(str) : str[i] = ch
  THEN CHOOSE i \in 1..Len(str) :
         str[i] = ch /\ \A j \in (i + 1)..Len(str) : str[j] # ch
  ELSE 0

\* path.extname: from the last dot of the last path segment to its end;
\* empty when that segment has no dot, only a leading one, or is "..".
ExtName(fileName) ==
  LET base == SubSeq(fileName, LastIndexOf(fileName, "/") + 1, Len(fileName))
      dot == LastIndexOf(base, ".")
  IN IF dot <= 1 \/ base = << ".", "." >> THEN << >>
     ELSE SubSeq(base, dot, Len(base))

\* Mutant of NormalizeExt: the extension is keyed as it is written.
NormalizeExt_AsWritten(ext) == ext
\* buildMaps: ext.startsWith('.') ? ext : `.${ext}`
NormalizeExt(ext) == IF StartsWith(ext, << "." >>) THEN ext ELSE << "." >> \o ext

\* Glob matching of a path relative to a base folder.  A pattern is a
\* sequence of characters and of the tokens "*" (any run of characters
\* inside one path segment) and "**/" (any number of leading segments).
RECURSIVE GlobMatch(_, _)
GlobMatch(pattern, str) ==
  IF pattern = << >> THEN str = << >>
  ELSE LET tok == Head(pattern)
           rest == Tail(pattern)
       IN CASE tok = "**/" ->
                 \/ GlobMatch(rest, str)
                 \/ \E i \in 1..Len(str) :
                      str[i] = "/" /\ GlobMatch(pattern, SubSeq(str, i + 1, Len(str)))
            [] tok = "*" ->
                 \E k \in 0..Len(str) :
                   /\ \A i \in 1..k : str[i] # "/"
                   /\ GlobMatch(rest, SubSeq(str, k + 1, Len(str)))
            [] OTHER ->
                 /\ str # << >>
                 /\ Head(str) = tok
                 /\ GlobMatch(rest, Tail(str))

\* vscode.languages.match({ pattern: new RelativePattern(base, pattern) }, doc)
RelativeMatch(base, pattern, fileName) ==
  /\ StartsWith(fileName, base \o << "/" >>)
  /\ GlobMatch(pattern, SubSeq(fileName, Len(base) + 2, Len(fileName)))

\* The JSON value null as an entry of a file: validateConfig reads
\* cfg.languageId of it, which throws.
Null == [null |-> TRUE]

\* validateConfig
ValidateConfig(cfg) ==
  /\ cfg.languageId # ""
  /\ cfg.command # ""
  /\ cfg.fileExtensions # << >>
  /\ cfg.transport \in {"", "stdio", "tcp", "websocket"}

IsDisabled(cfg) == cfg.disabled = "true"

\* loadConfigFile: the valid entries of one file are appended; an entry of
\* a workspace folder's file without workspacePattern gets the folder's path.
\* What validateConfig throws on a null entry is caught around the whole
\* loop: the entries pushed so far stay, the rest of the file is not read.
RECURSIVE PushValid(_, _, _)
PushValid(cfgs, entries, folder) ==
  IF entries = << >> \/ Head(entries) = Null THEN cfgs
  ELSE LET e == Head(entries)
           c == IF folder # Undefined /\ e.workspacePattern = Undefined
                THEN [e EXCEPT !.workspacePattern = folder] ELSE e
       IN PushValid(IF ValidateConfig(e) THEN Append(cfgs, c) ELSE cfgs,
                    Tail(entries), folder)

LoadConfigFile(cfgs, file, folder) ==
  CASE file.kind = "array" -> PushValid(cfgs, file.entries, folder)
    [] file.kind = "object" -> PushValid(cfgs, << file.entries[1] >>, folder)
    [] OTHER -> cfgs

\* The sources loadConfiguration reads, in its order: the file of each
\* workspace folder, then the global file.
NumSources == Len(workspaceFolders) + 1
FileOf(k) == IF k <= Len(workspaceFolders) THEN files.ws[k] ELSE files.global
FolderOf(k) == IF k <= Len(workspaceFolders) THEN workspaceFolders[k]
               ELSE Undefined

\* fs.existsSync in loadConfigFromWorkspace and loadGlobalConfig: the first
\* source from k on that has a file to read, NumSources + 1 when none has.
NextSource(k) ==
  IF \E n \in k..NumSources : FileOf(n).kind # "missing"
  THEN CHOOSE n \in k..NumSources :
         /\ FileOf(n).kind # "missing"
         /\ \A m \in k..(n - 1) : FileOf(m).kind = "missing"
  ELSE NumSources + 1

\* ------------------------------------------------- the resolver's inputs
\* Two workspace folders, and the documents looked up.
FolderP == << "/", "p" >>
FolderQ == << "/", "q" >>
Document(fileName, languageId) ==
  [fileName |-> fileName, languageId |-> languageId]
NoDocument == Document(<< >>, "")
ResDocs ==
  { Document(FolderP \o << "/", "a", ".", "j" >>, "j"),
    Document(FolderQ \o << "/", "a", ".", "j" >>, "j"),
    Document(FolderP \o << "/", "a", ".", "x" >>, "k"),
    Document(FolderQ \o << "/", "s", "/", "b", ".", "x" >>, ""),
    Document(FolderQ \o << "/", "a", ".", "t" >>, "t") }
ResIds == {"j", "k", "t"}

\* An entry of a configuration file.
Entry(languageId, command, fileExtensions, filePatterns, workspacePattern) ==
  [languageId |-> languageId, command |-> command,
   fileExtensions |-> fileExtensions, filePatterns |-> filePatterns,
   workspacePattern |-> workspacePattern, transport |-> "",
   disabled |-> "undefined"]
EntryJ == Entry("j", "srv-j", << << ".", "j" >> >>, << >>, Undefined)
EntryK == Entry("k", "srv-k", << << "j" >> >>, << >>, Undefined)
EntryT == Entry("t", "srv-t", << << ".", "t" >> >>,
                << << "**/", "*", ".", "x" >> >>, Undefined)
EntryJP == Entry("j", "srv-jp", << << ".", "j" >>, << "t" >> >>, << >>, FolderP)
EntryBad == Entry("k", "", << << ".", "j" >> >>, << >>, Undefined)
EntryNoId == Entry("", "srv-k", << << ".", "j" >> >>, << >>, Undefined)
EntryNoExt == Entry("k", "srv-k", << >>, << >>, Undefined)
EntryPipe == [EntryK EXCEPT !.transport = "pipe"]
EntryTcp == [EntryK EXCEPT !.transport = "tcp"]

Missing == [kind |-> "missing", entries |-> << >>]
Malformed == [kind |-> "malformed", entries |-> << >>]
Array(entries) == [kind |-> "array", entries |-> entries]
Object(entry) == [kind |-> "object", entries |-> << entry >>]

\* The disks the resolver is run on: the file of folder P, of folder Q,
\* and the global file.
Disk(fileP, fileQ, global) == [ws |-> << fileP, fileQ >>, global |-> global]
Disks ==
  { Disk(Missing, Missing, Missing),
    Disk(Array(<< EntryJ >>), Array(<< EntryJ >>), Missing),
    Disk(Array(<< EntryJ, EntryK >>), Missing, Malformed),
    Disk(Array(<< EntryK, EntryJ >>), Array(<< EntryT >>), Missing),
    Disk(Array(<< EntryJ >>), Array(<< EntryK >>), Missing),
    Disk(Array(<< EntryJ >>), Missing, Array(<< EntryK >>)),
    Disk(Missing, Array(<< EntryT >>), Object(EntryJP)),
    Disk(Array(<< EntryT >>), Array(<< EntryJ >>), Array(<< EntryBad >>)),
    Disk(Malformed,
         Array(<< EntryBad, EntryJ, EntryPipe, EntryNoExt, EntryNoId >>),
         Array(<< EntryT, Null, EntryTcp >>)) }
\* What workspaceState holds under 'disabledLspConfigs' at activation.
PersistedLists == { << >>, << "j" >> }
\* The sources of the largest workspace.
SourceIds == 1..(Len(Disk(Missing, Missing, Missing).ws) + 1)

\* The resolver's own state as one value R, so that its methods compose.
RCur == [configs |-> configs, ext |-> fileExtensionMap, id |-> languageIdMap,
         disabledLspConfigs |-> disabledLspConfigs]

NormalizedExts(cfg) ==
  {NormalizeExt(cfg.fileExtensions[k]) : k \in 1..Len(cfg.fileExtensions)}

\* Mutant of BuildMapsFrom: an extension already in the map keeps its config.
RECURSIVE BuildMapsFrom_FirstWins(_, _)
BuildMapsFrom_FirstWins(R, i) ==
  IF i > Len(R.configs) THEN R
  ELSE IF IsDisabled(R.configs[i]) THEN BuildMapsFrom_FirstWins(R, i + 1)
  ELSE LET cfg == R.configs[i]
           new == NormalizedExts(cfg) \ DOMAIN R.ext
       IN BuildMapsFrom_FirstWins(
            [R EXCEPT
               !.id = [x \in DOMAIN @ \cup {cfg.languageId} |->
                         IF x = cfg.languageId THEN i ELSE @[x]],
               !.ext = [x \in DOMAIN @ \cup new |->
                          IF x \in new THEN i ELSE @[x]]],
            i + 1)

\* Mutant of BuildMapsFrom: disabled configs are entered like the others.
RECURSIVE BuildMapsFrom_All(_, _)
BuildMapsFrom_All(R, i) ==
  IF i > Len(R.configs) THEN R
  ELSE LET cfg == R.configs[i]
       IN BuildMapsFrom_All(
            [R EXCEPT
               !.id = [x \in DOMAIN @ \cup {cfg.languageId} |->
                         IF x = cfg.languageId THEN i ELSE @[x]],
               !.ext = [x \in DOMAIN @ \cup NormalizedExts(cfg) |->
                          IF x \in NormalizedExts(cfg) THEN i ELSE @[x]]],
            i + 1)

\* buildMaps, from configs[i] on: a disabled config is skipped; the others
\* overwrite the entries of their languageId and normalized extensions.
RECURSIVE BuildMapsFrom(_, _)
BuildMapsFrom(R, i) ==
  IF i > Len(R.configs) THEN R
  ELSE IF IsDisabled(R.configs[i]) THEN BuildMapsFrom(R, i + 1)
  ELSE LET cfg == R.configs[i]
       IN BuildMapsFrom(
            [R EXCEPT
               !.id = [x \in DOMAIN @ \cup {cfg.languageId} |->
                         IF x = cfg.languageId THEN i ELSE @[x]],
               !.ext = [x \in DOMAIN @ \cup NormalizedExts(cfg) |->
                          IF x \in NormalizedExts(cfg) THEN i ELSE @[x]]],
            i + 1)

BuildMaps(R) == BuildMapsFrom(R, 1)

\* fileExtensionMap.clear(); languageIdMap.clear()
ClearMaps(R) == [R EXCEPT !.ext = << >>, !.id = << >>]

\* Array.prototype.find(c => c.languageId === languageId): index or 0.
FindConfig(cfgs, languageId) ==
  IF \E i \in 1..Len(cfgs) : cfgs[i].languageId = languageId
  THEN CHOOSE i \in 1..Len(cfgs) :
         /\ cfgs[i].languageId = languageId
         /\ \A j \in 1..(i - 1) : cfgs[j].languageId # languageId
  ELSE 0

\* The pattern step of getConfigForDocument: the first enabled config, in
\* list order, one of whose filePatterns matches the document.
PatternMatches(cfg, fileName) ==
  LET base == IF Truthy(cfg.workspacePattern) THEN cfg.workspacePattern
              ELSE IF workspaceFolders # << >> THEN workspaceFolders[1]
              ELSE Undefined
  IN /\ ~IsDisabled(cfg)
     /\ base # Undefined
     /\ \E k \in 1..Len(cfg.filePatterns) :
          RelativeMatch(base, cfg.filePatterns[k], fileName)

PatternHit(R, fileName) ==
  IF \E i \in 1..Len(R.configs) : PatternMatches(R.configs[i], fileName)
  THEN CHOOSE i \in 1..Len(R.configs) :
         /\ PatternMatches(R.configs[i], fileName)
         /\ \A j \in 1..(i - 1) : ~PatternMatches(R.configs[j], fileName)
  ELSE 0

\* Mutant of WorkspaceGate: the workspacePattern is not checked.
WorkspaceGate_Open(R, candidate, fileName) == candidate

\* The end of getConfigForDocument: a candidate with a workspacePattern is
\* returned only for a fileName that starts with it.
WorkspaceGate(R, candidate, fileName) ==
  IF /\ candidate # 0
     /\ Truthy(R.configs[candidate].workspacePattern)
     /\ ~StartsWith(fileName, R.configs[candidate].workspacePattern)
  THEN 0
  ELSE candidate

\* getConfigForDocument up to its gate: the config found by extension,
\* else by the document's languageId, else by pattern; 0 when none is.
Candidate(R, document) ==
  LET ext == ExtName(document.fileName)
      byExt == IF ext \in DOMAIN R.ext THEN R.ext[ext] ELSE 0
      byId == IF byExt # 0 THEN byExt
              ELSE IF document.languageId \in DOMAIN R.id
              THEN R.id[document.languageId]
              ELSE 0
  IN IF byId # 0 THEN byId ELSE PatternHit(R, document.fileName)

\* getConfigForDocument: the index of the returned config, 0 for undefined.
GetConfigForDocument(R, document) ==
  WorkspaceGate(R, Candidate(R, document), document.fileName)

\* getConfigByLanguageId
GetConfigByLanguageId(R, languageId) ==
  IF languageId \in DOMAIN R.id THEN R.id[languageId] ELSE 0

Includes(list, x) == \E i \in 1..Len(list) : list[i] = x

\* list.splice(list.indexOf(x), 1)
RemoveFirst(list, x) ==
  LET i == CHOOSE k \in 1..Len(list) :
             list[k] = x /\ \A j \in 1..(k - 1) : list[j] # x
  IN SubSeq(list, 1, i - 1) \o SubSeq(list, i + 1, Len(list))

\* markConfigAsDisabled
MarkConfigAsDisabled(R, languageId) ==
  LET i == FindConfig(R.configs, languageId)
  IN IF i = 0 THEN R
     ELSE BuildMaps(ClearMaps(
            [R EXCEPT !.configs[i].disabled = "true",
                      !.disabledLspConfigs =
                         IF Includes(@, languageId) THEN @
                         ELSE Append(@, languageId)]))

\* enableConfig
EnableConfig(R, languageId) ==
  LET i == FindConfig(R.configs, languageId)
  IN IF i = 0 THEN R
     ELSE BuildMaps(ClearMaps(
            [R EXCEPT !.configs[i].disabled = "false",
                      !.disabledLspConfigs =
                         IF Includes(@, languageId)
                         THEN RemoveFirst(@, languageId) ELSE @]))

\* loadConfiguration's restore of the disabled state.
RestoreDisabled(R) ==
  [R EXCEPT !.configs =
     [i \in 1..Len(@) |->
        IF Includes(R.disabledLspConfigs, @[i].languageId)
        THEN [@[i] EXCEPT !.disabled = "true"] ELSE @[i]]]

\* loadConfiguration from its last await on: the flags are restored and
\* buildMaps adds to what the maps hold by then.
FinishLoad(R) == BuildMaps(RestoreDisabled(R))

\* loadConfiguration from the read of source k on, up to its next await:
\* the file's valid entries are pushed; then either the next file that
\* exists is awaited (next: its source) or the load completes.
ContinueLoad(R, k) ==
  LET pushed == [R EXCEPT !.configs = LoadConfigFile(@, FileOf(k), FolderOf(k))]
      n == NextSource(k + 1)
  IN IF n > NumSources THEN [R |-> FinishLoad(pushed), next |-> 0]
     ELSE [R |-> pushed, next |-> n]

\* loadConfiguration up to its first await.
BeginLoad(R) ==
  LET reset == ClearMaps([R EXCEPT !.configs = << >>])
      n == NextSource(1)
  IN IF workspaceFolders = << >> THEN [R |-> reset, next |-> 0]
     ELSE IF n > NumSources THEN [R |-> FinishLoad(reset), next |-> 0]
     ELSE [R |-> reset, next |-> n]

\* ---------------------------------------------------------- restartClient
\* What the supervisor keeps of an LSPServerConfig in this model.
ServerConfig(cfg) == [languageId |-> cfg.languageId, command |-> cfg.command]

\* Whether stopClient(languageId) suspends on client.stop().
StopSuspends(M, languageId) ==
  languageId \in DOMAIN M.clients /\ NeedsStop(M, M.clients[languageId])

\* restartClient after `await this.stopClient(languageId)`: the config is
\* looked up in the resolver and, when there is one, started.
RestartLookup(M, languageId, announce) ==
  LET i == GetConfigByLanguageId(RCur, languageId)
  IN IF i = 0 THEN M
     ELSE StartClient(M, ServerConfig(configs[i]), NoDoc, announce)

\* Mutant of RestartClient: the lookup and the start do not wait for
\* stopClient.
RestartClient_NoAwait(M, languageId, announce) ==
  RestartLookup(StopClient(M, languageId), languageId, announce)

\* restartClient up to its first suspension: on client.stop() inside
\* stopClient, else on client.start() inside startClient, else its end.
RestartClient(M, languageId, announce) ==
  IF StopSuspends(M, languageId) THEN StopClient(M, languageId)
  ELSE RestartLookup(StopClient(M, languageId), languageId, announce)

\* ------------------------------------------------------ createServerOptions
\* config.tcpPort when the configuration has none (undefined, or 0: both
\* fail the test `config.tcpPort` of createServerOptions).
NoPort == 0
Ports == {6005, 6006}
\* An optional property of a configuration: absent, or present with a value.
Absent == << >>
Present(value) == << value >>
\* process.env, and the env objects configurations carry.
ProcessEnv == [PATH |-> "/usr/bin", HOME |-> "/home/u"]
ConfigEnvs == { [PATH |-> "/opt/bin"],
                [PATH |-> "/opt/bin", RUST_LOG |-> "debug"] }
\* process.platform
Platform == "linux"
\* { ...process.env, ...config.env }
Spread(base, over) ==
  [k \in DOMAIN base \cup DOMAIN over |->
     IF k \in DOMAIN over THEN over[k] ELSE base[k]]
\* The configurations createServerOptions is handed: every transport with
\* and without a port and a URL, and the ones spawned over stdio with and
\* without args and env.
TcpConfigs ==
  [languageId : {"gdscript"}, command : {"nc"},
   args : {Absent}, env : {Absent},
   transport : {"", "stdio", "tcp", "websocket"},
   tcpPort : Ports \cup {NoPort},
   websocketUrl : {"", "ws://localhost:8080/lsp"}]
  \cup
  [languageId : {"python"}, command : {"pylsp"},
   args : {Absent, Present(<< >>), Present(<< "--verbose" >>)},
   env : {Absent} \cup {Present(env) : env \in ConfigEnvs},
   transport : {"", "stdio"},
   tcpPort : {NoPort},
   websocketUrl : {""}]
NoConfig ==
  [languageId |-> "", command |-> "", args |-> Absent, env |-> Absent,
   transport |-> "", tcpPort |-> NoPort, websocketUrl |-> ""]
\* Mutant of Executable: a configuration without args is spawned with an
\* argument of the builder's own.
Executable_ImplicitArg(config) ==
  [kind |-> "executable",
   command |-> config.command,
   args |-> IF config.args = Absent THEN << "--stdio" >> ELSE config.args[1],
   options |-> [env |-> IF config.env = Absent THEN ProcessEnv
                        ELSE Spread(ProcessEnv, config.env[1]),
                shell |-> Platform = "win32"],
   transport |-> "stdio"]
\* The Executable createServerOptions returns when it returns no function.
Executable(config) ==
  [kind |-> "executable",
   command |-> config.command,
   args |-> IF config.args = Absent THEN << >> ELSE config.args[1],
   options |-> [env |-> IF config.env = Absent THEN ProcessEnv
                        ELSE Spread(ProcessEnv, config.env[1]),
                shell |-> Platform = "win32"],
   transport |-> "stdio"]
NoOptions == [kind |-> "none"]
\* A promise of a StreamInfo that has not settled.
Pending == [state |-> "pending", writer |-> 0, reader |-> 0]

TCur == [serverOptions |-> serverOptions, sockets |-> sockets,
         streams |-> streams]

\* Mutant of CreateServerOptions: the socket is opened when the options
\* are built.
CreateServerOptions_Eager(T, config) ==
  IF config.transport = "tcp" /\ config.tcpPort # NoPort
  THEN [T EXCEPT
          !.serverOptions = [kind |-> "function", config |-> config],
          !.sockets = Append(@, [port |-> config.tcpPort,
                                 state |-> "connecting"]),
          !.streams = Append(@, Pending)]
  ELSE [T EXCEPT !.serverOptions = Executable(config)]

\* createServerOptions(config): a function for a tcp configuration with a
\* port, the closure of which holds `config`; an Executable with
\* TransportKind.stdio for every other configuration.
CreateServerOptions(T, config) ==
  IF config.transport = "tcp" /\ config.tcpPort # NoPort
  THEN [T EXCEPT
          !.serverOptions = [kind |-> "function", config |-> config]]
  ELSE [T EXCEPT !.serverOptions = Executable(config)]

\* A call of the function createServerOptions returned: net.connect makes
\* a socket to config.tcpPort, and the promise returned waits for it.
Connector(T) ==
  [T EXCEPT
     !.sockets = Append(@, [port |-> T.serverOptions.config.tcpPort,
                            state |-> "connecting"]),
     !.streams = Append(@, Pending)]

\* The 'connect' listener of socket i: resolve({writer: socket, reader:
\* socket}); a settled promise stays as it is.
OnConnect(T, i) ==
  IF T.streams[i].state = "pending"
  THEN [T EXCEPT !.streams[i] = [state |-> "resolved", writer |-> i,
                                 reader |-> i]]
  ELSE T
\* The 'error' listener of socket i: reject.
OnError(T, i) ==
  IF T.streams[i].state = "pending"
  THEN [T EXCEPT !.streams[i].state = "rejected"]
  ELSE T

TcpCommit(T) ==
  /\ serverOptions' = T.serverOptions
  /\ sockets' = T.sockets
  /\ streams' = T.streams

\* Everything of the supervisor but its server options and sockets.
ManagerIdle ==
  UNCHANGED << clients, clientOrder, info, documentTracking, restartTimers,
               liveTimers, lib, startP, stops, autoRestart, last, attempts,
               stopAllCall, restartCalls, servers, reloadCmd, resVars >>

\* startClient builds the server options of `config`.
BuildOptions(config) ==
  /\ TcpCommit(CreateServerOptions(TCur, config))
  /\ built' = [op |-> "create", config |-> config, socket |-> 0]
  /\ ManagerIdle

\* The language client calls the function it was given as server options.
Invoke ==
  /\ serverOptions.kind = "function"
  /\ Len(sockets) < MaxSockets
  /\ TcpCommit(Connector(TCur))
  /\ built' = [op |-> "invoke", config |-> serverOptions.config,
               socket |-> Len(sockets) + 1]
  /\ ManagerIdle

\* Socket i emits 'connect'.
SocketConnect(i) ==
  /\ i <= Len(sockets)
  /\ sockets[i].state = "connecting"
  /\ TcpCommit(OnConnect([TCur EXCEPT !.sockets[i].state = "connected"], i))
  /\ built' = [op |-> "connect", config |-> NoConfig, socket |-> i]
  /\ ManagerIdle

\* Socket i emits 'error', while connecting or once connected.
SocketError(i) ==
  /\ i <= Len(sockets)
  /\ sockets[i].state \in {"connecting", "connected"}
  /\ TcpCommit(OnError([TCur EXCEPT !.sockets[i].state = "failed"], i))
  /\ built' = [op |-> "error", config |-> NoConfig, socket |-> i]
  /\ ManagerIdle

\* ---------------------------------------------------------------- actions
Turn(op, languageId, document, M) ==
  [op |-> op, lang |-> languageId, doc |-> document, out |-> M.out]

SupervisorInit ==
  /\ clients = << >>
  /\ clientOrder = << >>
  /\ info = [c \in ClientIds |-> NoInfo]
  /\ documentTracking = << >>
  /\ restartTimers = << >>
  /\ liveTimers = [l \in Langs |-> 0]
  /\ lib = [c \in ClientIds |-> "none"]
  /\ startP = [c \in ClientIds |-> NoStart]
  /\ stops = {}
  /\ autoRestart \in BOOLEAN
  /\ last = [op |-> "init", lang |-> "", doc |-> NoDoc, out |-> NoOut]
  /\ attempts = [l \in Langs |-> 0]
  /\ stopAllCall = NoStopAll
  /\ restartCalls = {}
  /\ servers = << >>
  /\ serverOptions = NoOptions
  /\ sockets = << >>
  /\ streams = << >>
  /\ built = [op |-> "init", config |-> NoConfig, socket |-> 0]
  /\ reloadCmd = "none"

\* A document is opened and the resolver picked `config` for it.
Ensure(config, document) ==
  /\ Absorbs(Cur, config.languageId) \/ HasSlot(Cur, config.languageId)
  /\ \E announce \in BOOLEAN :
       LET M == EnsureClientForConfig(Cur, config, document, announce)
       IN /\ Commit(M)
          /\ last' = Turn("ensure", config.languageId, document, M)
  /\ UNCHANGED << autoRestart, resVars >>

\* The library reports a state change of client c; the subscription made
\* in startClient runs handleClientStateChange for c's languageId.
ClientStateChange(c, newState) ==
  /\ \/ newState = 2 /\ lib[c] = "starting"
     \/ newState = 3 /\ lib[c] \in {"starting", "running"}
  /\ LET M0 == [Cur EXCEPT !.lib[c] = IF newState = 2 THEN "running"
                                      ELSE "stopped"]
         M == HandleClientStateChange(M0, c[1], newState)
     IN /\ Commit(M)
        /\ last' = Turn(IF newState = 2 THEN "event2" ELSE "event3",
                        c[1], NoDoc, M)
  /\ UNCHANGED << autoRestart, resVars >>

\* client.start() resolves: the client reached running.
StartResolved(c) ==
  /\ startP[c].state = "pending"
  /\ lib[c] = "running"
  /\ LET M == StartSucceeded(Cur, c)
     IN /\ Commit(M)
        /\ last' = Turn("started", c[1], startP[c].doc, M)
  /\ UNCHANGED << autoRestart, resVars >>

\* client.start() rejects: the launch failed, with or without a preceding
\* "stopped" state change.
StartRejected(c) ==
  /\ startP[c].state = "pending"
  /\ lib[c] \in {"starting", "stopped"}
  /\ LET M == StartFailed(Cur, c)
     IN /\ Commit(M)
        /\ last' = Turn("startFailed", c[1], NoDoc, M)
  /\ UNCHANGED << autoRestart, resVars >>

\* stopClient up to `await client.stop()`, or to its end when the client
\* needs no stop.
Stop(languageId) ==
  /\ languageId \in DOMAIN clients
  /\ LET c == clients[languageId]
         M1 == CancelRestart(Cur, languageId)
     IN IF NeedsStop(M1, c)
        THEN /\ Cardinality({t \in stops : t.lang = languageId}) < MaxStops
             /\ Commit([M1 EXCEPT !.stops = @ \cup
                          {[lang |-> languageId, client |-> c]}])
             /\ last' = Turn("stop", languageId, NoDoc, M1)
        ELSE LET M == RemoveClient(M1, languageId, FALSE)
             IN /\ Commit(M)
                /\ last' = Turn("stopped", languageId, NoDoc, M)
  /\ UNCHANGED << autoRestart, resVars >>

\* client.stop() settles (ok: it resolved, the client is stopped; otherwise
\* it threw and the error is logged); stopClient removes the bookkeeping.
StopSettled(call, ok) ==
  /\ call \in stops
  /\ ok => lib[call.client] = "stopped"
  /\ LET M == RemoveClient([Cur EXCEPT !.stops = @ \ {call}], call.lang, ~ok)
     IN /\ Commit(M)
        /\ last' = Turn(IF ok THEN "stopped" ELSE "stopThrew",
                        call.lang, NoDoc, M)
  /\ UNCHANGED << autoRestart, resVars >>

\* stopAllClients is called and runs to its await; it completes on the spot
\* when no client needed a stop.
StopAll ==
  /\ stopAllCall.state # "pending"
  /\ \A l \in DOMAIN clients :
       NeedsStop(Cur, clients[l]) => \A t \in stops : t.lang # l
  /\ LET M == StopAllClients(Cur, clientOrder)
         waits == M.stops \ stops
     IN /\ Commit(M)
        /\ last' = Turn("stopAll", "", NoDoc, M)
        /\ stopAllCall' = [state |-> IF waits = {} THEN "done" ELSE "pending",
                           keys |-> DOMAIN clients, waits |-> waits,
                           alone |-> TRUE]
  /\ UNCHANGED << autoRestart, attempts, restartCalls, servers, tcpVars,
                  resVars >>

\* What a turn means to the pending stopAllClients call: a stopClient call
\* it waits for has settled, and it completes when that was the last one;
\* or an ensure, a start or a restart took a turn.
StopAllAwaits(call) ==
  stopAllCall' =
    IF stopAllCall.state = "pending" /\ call \in stopAllCall.waits
    THEN [stopAllCall EXCEPT
            !.waits = @ \ {call},
            !.state = IF stopAllCall.waits = {call} THEN "done" ELSE @]
    ELSE stopAllCall
StopAllMixed ==
  stopAllCall' =
    IF stopAllCall.state = "pending"
    THEN [stopAllCall EXCEPT !.alone = FALSE] ELSE stopAllCall

\* restartClient(languageId) is called and runs to its first suspension.
Restart(languageId) ==
  /\ IF StopSuspends(Cur, languageId)
     THEN \A t \in stops : t.lang # languageId
     ELSE GetConfigByLanguageId(RCur, languageId) # 0
            => HasSlot(Cur, languageId)
  /\ \E announce \in BOOLEAN :
       LET M == RestartClient(Cur, languageId, announce)
       IN /\ Commit(M)
          /\ last' = Turn(IF StopSuspends(Cur, languageId) THEN "restart"
                          ELSE "restarted", languageId, NoDoc, M)
          /\ restartCalls' = restartCalls \cup (M.stops \ stops)
  /\ UNCHANGED << autoRestart, attempts, stopAllCall, servers, tcpVars,
                  reloadCmd, resVars >>

\* client.stop() settles for the stopClient call of a restartClient:
\* stopClient removes the bookkeeping and restartClient goes on.
RestartStopSettled(call, ok) ==
  /\ call \in stops /\ call \in restartCalls
  /\ ok => lib[call.client] = "stopped"
  /\ GetConfigByLanguageId(RCur, call.lang) # 0 => HasSlot(Cur, call.lang)
  /\ \E announce \in BOOLEAN :
       LET M0 == RemoveClient([Cur EXCEPT !.stops = @ \ {call}],
                              call.lang, ~ok)
           M == RestartLookup(M0, call.lang, announce)
       IN /\ Commit(M)
          /\ last' = Turn("restarted", call.lang, NoDoc, M)
  /\ restartCalls' = restartCalls \ {call}
  /\ UNCHANGED << autoRestart, attempts, stopAllCall, servers, tcpVars,
                  reloadCmd, resVars >>

\* getActiveServers is called and returns.
ListActive ==
  /\ servers' = GetActiveServers
  /\ last' = [op |-> "list", lang |-> "", doc |-> NoDoc, out |-> NoOut]
  /\ UNCHANGED << clients, clientOrder, info, documentTracking,
                  restartTimers, liveTimers, lib, startP, stops,
                  autoRestart, attempts, stopAllCall, restartCalls, tcpVars,
                  reloadCmd, resVars >>

\* A restart timer of languageId fires.  mapped: it is the timer the
\* restartTimers map still refers to.
TimerFired(languageId, mapped) ==
  /\ liveTimers[languageId] > 0
  /\ IF mapped
     THEN languageId \in DOMAIN restartTimers
          /\ restartTimers[languageId] = "live"
     ELSE liveTimers[languageId] >
            (IF languageId \in DOMAIN restartTimers
                /\ restartTimers[languageId] = "live" THEN 1 ELSE 0)
  /\ languageId \in DOMAIN clients => HasSlot(Cur, languageId)
  /\ \E announce \in BOOLEAN :
       LET M0 == [Cur EXCEPT
                    !.liveTimers[languageId] = @ - 1,
                    !.restartTimers =
                       IF mapped THEN MapSet(@, languageId, "fired") ELSE @]
           M == RestartTimerCallback(M0, languageId, announce)
       IN /\ Commit(M)
          /\ last' = Turn("timer", languageId, NoDoc, M)
  /\ UNCHANGED << autoRestart, resVars >>

\* ------------------------------------------------------ resolver actions
NoQuery == [kind |-> "none", document |-> NoDocument, languageId |-> "",
            result |-> 0]

RECURSIVE SumTo(_, _)
SumTo(f, n) == IF n = 0 THEN 0 ELSE f[n] + SumTo(f, n - 1)
\* The loadConfiguration calls in flight.
Loading == SumTo(loading, NumSources)

CommitR(R) ==
  /\ configs' = R.configs
  /\ fileExtensionMap' = R.ext
  /\ languageIdMap' = R.id
  /\ disabledLspConfigs' = R.disabledLspConfigs

\* The resolver before activation, with nothing on disk.
ResolverIdle ==
  /\ configs = << >>
  /\ fileExtensionMap = << >>
  /\ languageIdMap = << >>
  /\ disabledLspConfigs = << >>
  /\ workspaceFolders = << FolderP, FolderQ >>
  /\ files = [ws |-> << Missing, Missing >>, global |-> Missing]
  /\ loading = [k \in 1..NumSources |-> 0]
  /\ resolved = NoQuery

\* The resolver after construction, in a workspace and on a disk of the
\* environment's choosing.
ResolverInit ==
  /\ configs = << >>
  /\ fileExtensionMap = << >>
  /\ languageIdMap = << >>
  /\ disabledLspConfigs \in PersistedLists
  /\ \/ /\ workspaceFolders = << FolderP, FolderQ >>
        /\ files \in Disks
     \/ /\ workspaceFolders = << >>
        /\ files = [ws |-> << >>, global |-> Array(<< EntryK >>)]
  /\ loading = [k \in 1..NumSources |-> 0]
  /\ resolved = NoQuery

\* loadConfiguration is called (activation, the reload command, a change of
\* the workspace folders or of a configuration file) and runs to its first
\* await.
LoadConfigurationWithin(inFlight) ==
  /\ Loading < inFlight
  /\ LET B == BeginLoad(RCur)
     IN /\ CommitR(B.R)
        /\ loading' = IF B.next = 0 THEN loading
                      ELSE [loading EXCEPT ![B.next] = @ + 1]
  /\ resolved' = NoQuery
  /\ UNCHANGED << workspaceFolders, files, supVars >>

LoadConfiguration == LoadConfigurationWithin(MaxLoads)

\* fs.promises.readFile of source k settles for one of the loads awaiting
\* it, which runs to its next await or to its end.
FileRead(k) ==
  /\ k \in DOMAIN loading
  /\ loading[k] > 0
  /\ LET C == ContinueLoad(RCur, k)
     IN /\ CommitR(C.R)
        /\ loading' = [n \in DOMAIN loading |->
                         loading[n] - (IF n = k THEN 1 ELSE 0)
                                    + (IF n = C.next THEN 1 ELSE 0)]
  /\ resolved' = NoQuery
  /\ UNCHANGED << workspaceFolders, files, supVars >>

MarkAsDisabled(languageId) ==
  /\ CommitR(MarkConfigAsDisabled(RCur, languageId))
  /\ resolved' = [NoQuery EXCEPT !.kind = "disable", !.languageId = languageId]
  /\ UNCHANGED << workspaceFolders, files, loading, supVars >>

Enable(languageId) ==
  /\ CommitR(EnableConfig(RCur, languageId))
  /\ resolved' = [NoQuery EXCEPT !.kind = "enable", !.languageId = languageId]
  /\ UNCHANGED << workspaceFolders, files, loading, supVars >>

\* getConfigForDocument(document) is called and returns.
Resolve(document) ==
  /\ resolved' = [kind |-> "document", document |-> document,
                  languageId |-> "",
                  result |-> GetConfigForDocument(RCur, document)]
  /\ UNCHANGED << configs, fileExtensionMap, languageIdMap,
                  disabledLspConfigs, workspaceFolders, files, loading,
                  supVars >>

\* getConfigByLanguageId(languageId) is called and returns.
ResolveById(languageId) ==
  /\ resolved' = [kind |-> "languageId", document |-> NoDocument,
                  languageId |-> languageId,
                  result |-> GetConfigByLanguageId(RCur, languageId)]
  /\ UNCHANGED << configs, fileExtensionMap, languageIdMap,
                  disabledLspConfigs, workspaceFolders, files, loading,
                  supVars >>

\* ---------------------------------------------------------- specifications
\* The supervisor after construction; the resolver is not exercised.
Init == SupervisorInit /\ ResolverIdle

MainConfigs == {config \in SupConfigs : config.languageId \in MainLangs}

\* A turn of a specification without counted restarts, stopAllClients,
\* restartClient or getActiveServers.
Only ==
  UNCHANGED << attempts, stopAllCall, restartCalls, servers, tcpVars,
               reloadCmd >>

\* One identity and one document under every interleaving of the
\* supervisor's operations, its clients' events and its timers.
Next ==
  \/ \E config \in MainConfigs, document \in MainDocs :
       Ensure(config, document) /\ Only
  \/ \E c \in ClientIds, newState \in {2, 3} :
       ClientStateChange(c, newState) /\ Only
  \/ \E c \in ClientIds : StartResolved(c) /\ Only
  \/ \E c \in ClientIds : StartRejected(c) /\ Only
  \/ \E languageId \in Langs : Stop(languageId) /\ Only
  \/ \E call \in stops, ok \in BOOLEAN :
       StopSettled(call, ok) /\ Only
  \/ \E languageId \in Langs, mapped \in BOOLEAN :
       TimerFired(languageId, mapped) /\ Only

Spec == Init /\ [][Next]_vars

\* Two identities and two documents; every start succeeds and nothing is
\* stopped.
NextEnsure ==
  \/ \E config \in SupConfigs, document \in Docs :
       Ensure(config, document) /\ Only
  \/ \E c \in ClientIds : ClientStateChange(c, 2) /\ Only
  \/ \E c \in ClientIds : StartResolved(c) /\ Only

SpecEnsure == Init /\ [][NextEnsure]_vars

\* Every start fails.  attempts counts the starts issued by restart timers
\* since the last start issued by ensureClientForConfig.
CountAttempt ==
  /\ attempts' =
       IF last'.out.started
       THEN [attempts EXCEPT ![last'.lang] =
               IF last'.op = "timer" THEN @ + 1 ELSE 0]
       ELSE attempts
  /\ UNCHANGED << stopAllCall, restartCalls, servers, tcpVars, reloadCmd >>

NextFail ==
  \/ \E config \in MainConfigs, document \in MainDocs :
       Ensure(config, document) /\ CountAttempt
  \/ \E c \in ClientIds : ClientStateChange(c, 3) /\ CountAttempt
  \/ \E c \in ClientIds : StartRejected(c) /\ CountAttempt
  \/ \E languageId \in Langs, mapped \in BOOLEAN :
       /\ attempts[languageId] < MaxAttempts
       /\ TimerFired(languageId, mapped)
       /\ CountAttempt

SpecFail == Init /\ [][NextFail]_vars

\* stopAllClients over two identities, with no automatic restart and
\* starts that succeed.  Identity "a" is ensured and stopped at any time and
\* its stops may throw; identity "b" is ensured when it has no record and
\* is stopped by stopAllClients only.  A client reports "stopped" while a
\* stop of it is pending.
InitStopAll == Init /\ ~autoRestart

NextStopAll ==
  \/ \E config \in SupConfigs, document \in MainDocs :
       /\ config.languageId \in MainLangs
          \/ config.languageId \notin DOMAIN clients
       /\ Ensure(config, document) /\ StopAllMixed
       /\ UNCHANGED << attempts, restartCalls, servers, tcpVars, reloadCmd >>
  \/ \E c \in ClientIds : ClientStateChange(c, 2) /\ Only
  \/ \E call \in stops : ClientStateChange(call.client, 3) /\ Only
  \/ \E c \in ClientIds :
       StartResolved(c) /\ StopAllMixed
       /\ UNCHANGED << attempts, restartCalls, servers, tcpVars, reloadCmd >>
  \/ \E languageId \in MainLangs : Stop(languageId) /\ Only
  \/ \E call \in stops, ok \in BOOLEAN :
       /\ ok \/ call.lang \in MainLangs
       /\ StopSettled(call, ok) /\ StopAllAwaits(call)
       /\ UNCHANGED << attempts, restartCalls, servers, tcpVars, reloadCmd >>
  \/ StopAll /\ UNCHANGED reloadCmd

SpecStopAll == InitStopAll /\ [][NextStopAll]_vars

\* getActiveServers over two identities with no automatic restart.
\* Identity "a" is ensured at any time, its starts succeed or fail, its
\* client may stop by itself and it may be stopped; identity "b" is ensured
\* when it has no record and its starts succeed.  The caller keeps the
\* returned array until it calls the supervisor again.
Dropped ==
  /\ servers' = << >>
  /\ UNCHANGED << attempts, stopAllCall, restartCalls, tcpVars, reloadCmd >>

NextList ==
  \/ \E config \in SupConfigs, document \in MainDocs :
       /\ config.languageId \in MainLangs
          \/ config.languageId \notin DOMAIN clients
       /\ Ensure(config, document) /\ Dropped
  \/ \E c \in ClientIds : ClientStateChange(c, 2) /\ Only
  \/ \E c \in ClientIds :
       c[1] \in MainLangs /\ ClientStateChange(c, 3) /\ Only
  \/ \E c \in ClientIds : StartResolved(c) /\ Only
  \/ \E c \in ClientIds : c[1] \in MainLangs /\ StartRejected(c) /\ Only
  \/ \E languageId \in MainLangs : Stop(languageId) /\ Dropped
  \/ \E call \in stops : StopSettled(call, TRUE) /\ Only
  \/ ListActive

SpecList == InitStopAll /\ [][NextList]_vars

\* Crash recovery: one identity with automatic restart, ensured with
\* either of two configs, under every interleaving of the supervisor's
\* operations.  A restart timer that is set and not cleared fires.
CrashConfigs ==
  MainConfigs \cup {[languageId |-> l, command |-> "srv-2"] : l \in MainLangs}

NextCrash ==
  \/ \E config \in CrashConfigs, document \in MainDocs :
       Ensure(config, document) /\ Only
  \/ \E c \in ClientIds, newState \in {2, 3} :
       ClientStateChange(c, newState) /\ Only
  \/ \E c \in ClientIds : StartResolved(c) /\ Only
  \/ \E c \in ClientIds : StartRejected(c) /\ Only
  \/ \E languageId \in MainLangs : Stop(languageId) /\ Only
  \/ \E call \in stops, ok \in BOOLEAN : StopSettled(call, ok) /\ Only
  \/ \E languageId \in MainLangs, mapped \in BOOLEAN :
       TimerFired(languageId, mapped) /\ Only

TimersFire ==
  \A languageId \in MainLangs :
    WF_vars(\E mapped \in BOOLEAN : TimerFired(languageId, mapped) /\ Only)

InitCrash == Init /\ autoRestart

SpecCrash == InitCrash /\ [][NextCrash]_vars /\ TimersFire

\* One identity with restartClient, under every interleaving of the
\* supervisor's operations; the resolver has loaded a global file that
\* holds a config of the identity, or no file at all.
EntryA == Entry("a", "srv-a2", << << ".", "a" >> >>, << >>, Undefined)
ResolverLoaded ==
  LET B == BeginLoad([configs |-> << >>, ext |-> << >>, id |-> << >>,
                      disabledLspConfigs |-> << >>])
      R == IF B.next = 0 THEN B.R ELSE ContinueLoad(B.R, B.next).R
  IN /\ configs = R.configs
     /\ fileExtensionMap = R.ext
     /\ languageIdMap = R.id
     /\ disabledLspConfigs = R.disabledLspConfigs
     /\ loading = [k \in 1..NumSources |-> 0]
     /\ resolved = NoQuery

InitRestart ==
  /\ SupervisorInit
  /\ workspaceFolders = << FolderP, FolderQ >>
  /\ files \in { Disk(Missing, Missing, Array(<< EntryA >>)),
                  Disk(Missing, Missing, Missing) }
  /\ ResolverLoaded

NextRestart ==
  \/ \E config \in MainConfigs, document \in MainDocs :
       Ensure(config, document) /\ Only
  \/ \E c \in ClientIds, newState \in {2, 3} :
       ClientStateChange(c, newState) /\ Only
  \/ \E c \in ClientIds : StartResolved(c) /\ Only
  \/ \E c \in ClientIds : StartRejected(c) /\ Only
  \/ \E languageId \in MainLangs : Stop(languageId) /\ Only
  \/ \E call \in stops, ok \in BOOLEAN :
       call \notin restartCalls /\ StopSettled(call, ok) /\ Only
  \/ \E languageId \in MainLangs, mapped \in BOOLEAN :
       TimerFired(languageId, mapped) /\ Only
  \/ \E languageId \in MainLangs : Restart(languageId)
  \/ \E call \in stops, ok \in BOOLEAN : RestartStopSettled(call, ok)

SpecRestart == InitRestart /\ [][NextRestart]_vars

\* The server options of every configuration, the calls of the function
\* built for a tcp configuration, and the events of its sockets.
NextTcp ==
  \/ \E config \in TcpConfigs : BuildOptions(config)
  \/ Invoke
  \/ \E i \in 1..MaxSockets : SocketConnect(i)
  \/ \E i \in 1..MaxSockets : SocketError(i)

SpecTcp == InitCrash /\ [][NextTcp]_vars

\* One start attempt that fails.  ensureClientForConfig starts a client
\* once; that client fails: it reports "stopped", its start rejects, or
\* both, at any time.  The clients restart timers start do not fail: they
\* reach running, and their starts resolve.  attempts counts the starts
\* issued by restart timers.
FirstAttempt(c) == startP[c].state = "pending" /\ startP[c].doc # NoDoc
NextOneFailure ==
  \/ \E config \in MainConfigs, document \in Docs :
       /\ last.op = "init" \/ Absorbs(Cur, config.languageId)
       /\ Ensure(config, document) /\ CountAttempt
  \/ \E c \in ClientIds :
       FirstAttempt(c) /\ ClientStateChange(c, 3) /\ CountAttempt
  \/ \E c \in ClientIds :
       FirstAttempt(c) /\ StartRejected(c) /\ CountAttempt
  \/ \E c \in ClientIds :
       ~FirstAttempt(c) /\ ClientStateChange(c, 2) /\ CountAttempt
  \/ \E c \in ClientIds :
       ~FirstAttempt(c) /\ StartResolved(c) /\ CountAttempt
  \/ \E languageId \in MainLangs, mapped \in BOOLEAN :
       /\ attempts[languageId] < MaxAttempts
       /\ TimerFired(languageId, mapped)
       /\ CountAttempt

SpecOneFailure == InitCrash /\ [][NextOneFailure]_vars

\* ------------------------------------------------------------- the commands
\* vscode.workspace.textDocuments: two files of identity "a", the second
\* with a language tag no configuration has, a file of identity "b", and
\* a document that is no file.
TextDocument(uri, scheme, fileName, languageId) ==
  [uri |-> uri, scheme |-> scheme, document |-> Document(fileName, languageId)]
TextDocuments ==
  << TextDocument("d1", "file", FolderP \o << "/", "m", ".", "a" >>, "a"),
     TextDocument("d2", "file", FolderP \o << "/", "n", ".", "a" >>, ""),
     TextDocument("d3", "file", FolderQ \o << "/", "n", ".", "b" >>, "b"),
     TextDocument("d4", "untitled", << "u", ".", "a" >>, "a") >>

EntryRA == Entry("a", "srv-a", << << ".", "a" >> >>, << >>, Undefined)
EntryRB == Entry("b", "srv-b", << << ".", "b" >> >>, << >>, Undefined)
\* The configuration files before and after the user edits them.
ReloadDisks ==
  { Disk(Missing, Missing, Array(<< EntryRA, EntryRB >>)),
    Disk(Missing, Missing, Array(<< EntryRA >>)),
    Disk(Array(<< EntryRB >>), Missing, Missing),
    Disk(Missing, Missing, Missing) }

\* handleDocumentOpen up to its first await.
HandleDocumentOpen(M, doc, announce) ==
  IF doc.scheme # "file" THEN M
  ELSE LET i == GetConfigForDocument(RCur, doc.document)
       IN IF i = 0 THEN M
          ELSE EnsureClientForConfig(M, ServerConfig(configs[i]), doc.uri,
                                     announce)

\* Mutant of ForEachOpen: only the first open document is resolved again.
ForEachOpen_First(M, docs, announce) ==
  IF docs = << >> THEN M
  ELSE HandleDocumentOpen(M, Head(docs), announce)

\* textDocuments.forEach(handleDocumentOpen): the calls run one after the
\* other, each to its first await.
RECURSIVE ForEachOpen(_, _, _)
ForEachOpen(M, docs, announce) ==
  IF docs = << >> THEN M
  ELSE ForEachOpen(HandleDocumentOpen(M, Head(docs), announce), Tail(docs),
                   announce)

\* Nothing is in flight: no start, no stop, no load.
Quiet ==
  /\ \A c \in ClientIds : startP[c].state # "pending"
  /\ stops = {}
  /\ Loading = 0

\* A document is opened before the reload command is used.
DocumentOpened(i) ==
  /\ reloadCmd = "none"
  /\ \A l \in Langs : HasSlot(Cur, l)
  /\ \E announce \in BOOLEAN :
       LET M == HandleDocumentOpen(Cur, TextDocuments[i], announce)
       IN /\ Commit(M)
          /\ last' = Turn("open", "", TextDocuments[i].uri, M)
  /\ UNCHANGED << autoRestart, resVars >>
  /\ Only

\* The user edits the configuration files.
FilesEdited(disk) ==
  /\ reloadCmd = "none"
  /\ Loading = 0
  /\ disk # files
  /\ files' = disk
  /\ UNCHANGED << configs, fileExtensionMap, languageIdMap,
                  disabledLspConfigs, workspaceFolders, loading, resolved,
                  supVars >>

\* handleReloadConfigCommand up to `await configManager.loadConfiguration()`
\* suspending, with nothing else in flight.
ReloadCommand ==
  /\ reloadCmd = "none"
  /\ Quiet
  /\ LET B == BeginLoad(RCur)
     IN /\ CommitR(B.R)
        /\ loading' = IF B.next = 0 THEN loading
                      ELSE [loading EXCEPT ![B.next] = @ + 1]
  /\ resolved' = NoQuery
  /\ reloadCmd' = "loading"
  /\ UNCHANGED << workspaceFolders, files, clients, clientOrder, info,
                  documentTracking, restartTimers, liveTimers, lib, startP,
                  stops, autoRestart, last, attempts, stopAllCall,
                  restartCalls, servers, tcpVars >>

\* The command after its load: stopAllClients up to its await.
ReloadStopAll ==
  /\ reloadCmd = "loading"
  /\ Loading = 0
  /\ StopAll
  /\ reloadCmd' = "stopping"

\* The command after stopAllClients: handleDocumentOpen for every open
\* document.
ReloadForEach ==
  /\ reloadCmd = "stopping"
  /\ stopAllCall.state = "done"
  /\ \A l \in Langs : HasSlot(Cur, l)
  /\ \E announce \in BOOLEAN :
       LET M == ForEachOpen(Cur, TextDocuments, announce)
       IN /\ Commit(M)
          /\ last' = Turn("forEach", "", NoDoc, M)
  /\ reloadCmd' = "resolved"
  /\ UNCHANGED << autoRestart, attempts, stopAllCall, restartCalls, servers,
                  tcpVars, resVars >>

\* Documents are opened, their clients start or fail to; the files are
\* edited; the reload command runs, and only what it awaits takes a turn
\* until it and the starts it issued have settled.  Restart timers are
\* events of their own: automatic restart is off.
NextReload ==
  \/ \E i \in 1..Len(TextDocuments) : DocumentOpened(i)
  \/ \E c \in ClientIds : ClientStateChange(c, 2) /\ Only
  \/ \E c \in ClientIds : StartResolved(c) /\ Only
  \/ \E c \in ClientIds : StartRejected(c) /\ Only
  \/ \E disk \in ReloadDisks : FilesEdited(disk)
  \/ ReloadCommand
  \/ \E k \in SourceIds : reloadCmd = "loading" /\ FileRead(k)
  \/ ReloadStopAll
  \/ \E c \in ClientIds :
       /\ \E call \in stops : call.client = c
       /\ ClientStateChange(c, 3) /\ Only
  \/ \E c \in ClientIds, ok \in BOOLEAN :
       LET call == [lang |-> c[1], client |-> c]
       IN /\ StopSettled(call, ok) /\ StopAllAwaits(call)
          /\ UNCHANGED << attempts, restartCalls, servers, tcpVars,
                          reloadCmd >>
  \/ ReloadForEach

InitReload ==
  /\ SupervisorInit
  /\ ~autoRestart
  /\ workspaceFolders = << FolderP, FolderQ >>
  /\ files \in ReloadDisks
  /\ ResolverLoaded

SpecReload == InitReload /\ [][NextReload]_vars

\* loadConfiguration run from its call to its end with nothing in between.
RECURSIVE LoadFrom(_, _)
LoadFrom(R, k) ==
  LET C == ContinueLoad(R, k)
  IN IF C.next = 0 THEN C.R ELSE LoadFrom(C.R, C.next)
LoadedResolver(R) ==
  LET B == BeginLoad(R)
  IN IF B.next = 0 THEN B.R ELSE LoadFrom(B.R, B.next)

\* The resolver after activation has loaded the disk, with nothing
\* disabled: loads that may overlap, and lookups between their steps.
InitLoads ==
  /\ SupervisorInit
  /\ autoRestart
  /\ workspaceFolders = << FolderP, FolderQ >>
  /\ files \in Disks
  /\ LET R == LoadedResolver([configs |-> << >>, ext |-> << >>,
                              id |-> << >>, disabledLspConfigs |-> << >>])
     IN /\ configs = R.configs
        /\ fileExtensionMap = R.ext
        /\ languageIdMap = R.id
        /\ disabledLspConfigs = R.disabledLspConfigs
  /\ loading = [k \in 1..NumSources |-> 0]
  /\ resolved = NoQuery

NextLoads ==
  \/ LoadConfigurationWithin(MaxOverlap)
  \/ \E k \in SourceIds : FileRead(k)
  \/ \E document \in ResDocs : Resolve(document)
  \/ \E languageId \in ResIds : ResolveById(languageId)

SpecLoads == InitLoads /\ [][NextLoads]_vars

\* One identity and two documents under every interleaving of the
\* supervisor's operations, its clients' events and its timers.
NextDocs ==
  \/ \E config \in MainConfigs, document \in Docs :
       Ensure(config, document) /\ Only
  \/ \E c \in ClientIds, newState \in {2, 3} :
       ClientStateChange(c, newState) /\ Only
  \/ \E c \in ClientIds : StartResolved(c) /\ Only
  \/ \E c \in ClientIds : StartRejected(c) /\ Only
  \/ \E languageId \in MainLangs : Stop(languageId) /\ Only
  \/ \E call \in stops, ok \in BOOLEAN :
       StopSettled(call, ok) /\ Only
  \/ \E languageId \in MainLangs, mapped \in BOOLEAN :
       TimerFired(languageId, mapped) /\ Only

SpecDocs == Init /\ [][NextDocs]_vars

\* The resolver alone: loads, lookups, disabling and enabling, in every
\* order, over every disk of ResolverInit.
InitResolver ==
  /\ SupervisorInit
  /\ autoRestart
  /\ ResolverInit

NextResolver ==
  \/ LoadConfiguration
  \/ \E k \in SourceIds : FileRead(k)
  \/ \E languageId \in ResIds : MarkAsDisabled(languageId)
  \/ \E languageId \in ResIds : Enable(languageId)
  \/ \E document \in ResDocs : Resolve(document)
  \/ \E languageId \in ResIds : ResolveById(languageId)

SpecResolver == InitResolver /\ [][NextResolver]_vars

\* =================================================================== claims
\* The record of `languageId`, when the clients map holds one.
HasRecord(languageId) == languageId \in DOMAIN clients
StatusOf(languageId) == info[clients[languageId]].status

\* C1: ensure(config, document) on an identity whose record is 'starting' or
\* 'running' adds the document to the identity's document set and starts
\* nothing: the record, the clients and the suspended starts stay as they
\* were.
C1_EnsureAbsorbs ==
  [][\A l \in Langs :
       (/\ HasRecord(l)
        /\ StatusOf(l) \in {"starting", "running"}
        /\ last'.op = "ensure"
        /\ last'.lang = l)
       => /\ ~last'.out.started
          /\ clients' = clients
          /\ lib' = lib
          /\ startP' = startP
          /\ l \in DOMAIN documentTracking'
          /\ last'.doc \in documentTracking'[l]]_vars

\* An ensure that found the record 'starting' and tracked its document.
C1_Witness ==
  /\ last.op = "ensure"
  /\ ~last.out.started
  /\ HasRecord(last.lang)
  /\ StatusOf(last.lang) = "starting"
  /\ last.doc \in documentTracking[last.lang]

\* The LanguageClient objects constructed for an identity and still held.
Created(l) == {c \in ClientIds : c[1] = l /\ lib[c] # "none"}

\* The documents an identity answers for: the tracked ones and the one a
\* suspended startClient will track when client.start() resolves.
Accounted(l) ==
  (IF l \in DOMAIN documentTracking THEN documentTracking[l] ELSE {})
    \cup {startP[c].doc :
            c \in {x \in ClientIds : /\ x[1] = l
                                     /\ startP[x].state = "pending"
                                     /\ startP[x].doc # NoDoc}}

C2_Inv ==
  \A l \in Langs :
    /\ Cardinality(Created(l)) <= 1
    /\ \A c \in Created(l) :
         startP[c].state = "done" =>
           /\ HasRecord(l)
           /\ clients[l] = c
           /\ info[c].status = "running"
           /\ l \in DOMAIN documentTracking
           /\ info[c].documentCount = Cardinality(documentTracking[l])

C2_Act ==
  \A l \in Langs :
    /\ Accounted(l) \subseteq Accounted(l)'
    /\ (last'.op = "ensure" /\ last'.lang = l) => last'.doc \in Accounted(l)'

\* C2: with every start succeeding and no stop, ensure calls for one identity
\* construct exactly one client, however they interleave with the pending
\* start; every ensured document stays accounted for (tracked, or the
\* document of the pending start), and once the start has resolved the
\* record is 'running', all of them are tracked and documentCount is the
\* size of the document set (2 for two documents).
C2_OneStartBothTracked == []C2_Inv /\ [][C2_Act]_vars

\* ensure(doc1), ensure(doc2) while the start is pending, start resolved.
C2_Witness ==
  \E l \in Langs :
    /\ HasRecord(l)
    /\ startP[clients[l]].state = "done"
    /\ StatusOf(l) = "running"
    /\ Cardinality(Created(l)) = 1
    /\ documentTracking[l] = {"d1", "d2"}
    /\ info[clients[l]].documentCount = 2
    /\ last.op = "started"
    /\ last.doc # NoDoc

\* When stopClient has completed, its identity has no record and no
\* document set, and getActiveServers does not list it.
C3_Removed ==
  last.op \in {"stopped", "stopThrew"} =>
    /\ last.lang \notin DOMAIN clients
    /\ last.lang \notin DOMAIN documentTracking
    /\ \A i \in DOMAIN GetActiveServers :
         GetActiveServers[i].languageId # last.lang

\* An identity without a record gets one only from ensureClientForConfig.
C3_Recreated ==
  \A l \in Langs :
    (l \notin DOMAIN clients /\ l \in DOMAIN clients') =>
      (last'.op = "ensure" /\ last'.lang = l)

\* C3: when stopClient completes, also after client.stop() threw, the
\* identity has no record and no document set and getActiveServers does
\* not list it, until a later ensureClientForConfig creates a record.
C3_StopRemoves == []C3_Removed /\ [][C3_Recreated]_vars

\* A stopClient whose client.stop() threw has completed.
C3_Witness ==
  /\ last.op = "stopThrew"
  /\ last.lang \notin DOMAIN clients
  /\ last.lang \notin DOMAIN documentTracking

\* C4: while every start fails, restart timers re-invoke start for one
\* identity at most 3 times in a row.
C4_RestartCap == \A l \in Langs : attempts[l] <= MaxRestarts

\* C5: right after a state change to running (newState = 2) was handled for
\* an identity with a record, the record is 'running', its restartCount is
\* 0 and no restart timer of the identity is pending.
C5_RunningResets ==
  (last.op = "event2" /\ HasRecord(last.lang)) =>
    /\ StatusOf(last.lang) = "running"
    /\ info[clients[last.lang]].restartCount = 0
    /\ liveTimers[last.lang] = 0
    /\ last.lang \notin DOMAIN restartTimers

\* A state change to running that canceled a pending restart timer.
C5_Witness ==
  /\ last.op = "event2"
  /\ HasRecord(last.lang)
  /\ last.out.canceled
  /\ StatusOf(last.lang) = "running"


\* ------------------------------------------------------------- resolver
\* No loadConfiguration call is in flight.
Loaded == Loading = 0
Enabled(i) == ~IsDisabled(configs[i])
Declares(cfg, ext) == ext \in NormalizedExts(cfg)
\* The document passes the gate of configs[i].
InScope(cfg, document) ==
  Truthy(cfg.workspacePattern) =>
    StartsWith(document.fileName, cfg.workspacePattern)

\* C6, first part: right after markConfigAsDisabled(id) returned,
\* getConfigForDocument returns no config whose languageId is id, for any
\* document.
C6_DisabledIdUnresolved ==
  resolved.kind = "disable" =>
    \A document \in ResDocs :
      LET r == GetConfigForDocument(RCur, document)
      IN r # 0 => configs[r].languageId # resolved.languageId

\* C6, second part: no lookup returns a config whose disabled flag is true.
C6_NoDisabledReturned ==
  (resolved.kind \in {"document", "languageId"} /\ resolved.result # 0) =>
    ~IsDisabled(configs[resolved.result])

\* C6: disabling a languageId removes it from resolution immediately, and
\* neither getConfigForDocument nor getConfigByLanguageId ever returns a
\* config whose disabled flag is true.
C6_DisableRemoves == C6_DisabledIdUnresolved /\ C6_NoDisabledReturned


\* Every config with this languageId is enabled, and there is one.
IdEnabled(R, languageId) ==
  /\ FindConfig(R.configs, languageId) # 0
  /\ \A i \in 1..Len(R.configs) :
       R.configs[i].languageId = languageId => ~IsDisabled(R.configs[i])

\* What getConfigForDocument returns for each document.
Resolution(R) ==
  [document \in ResDocs |->
     LET r == GetConfigForDocument(R, document)
     IN IF r = 0 THEN << >> ELSE << r, R.configs[r].languageId >>]

C7_Twice ==
  \A languageId \in ResIds :
    /\ MarkConfigAsDisabled(MarkConfigAsDisabled(RCur, languageId), languageId)
         = MarkConfigAsDisabled(RCur, languageId)
    /\ EnableConfig(EnableConfig(RCur, languageId), languageId)
         = EnableConfig(RCur, languageId)

C7_Inverse ==
  \A languageId \in ResIds :
    (Loaded /\ IdEnabled(RCur, languageId)) =>
      Resolution(EnableConfig(MarkConfigAsDisabled(RCur, languageId),
                              languageId))
        = Resolution(RCur)

\* C7: markConfigAsDisabled(id) twice leaves the configs, the maps and the
\* persisted list as once does, so does enableConfig(id) twice, and on a
\* loaded set where id is enabled markConfigAsDisabled(id) followed by
\* enableConfig(id) restores what every document resolves to.
C7_IdempotentInverse == C7_Twice /\ C7_Inverse


\* C8: a config that carries a workspacePattern is returned only for a
\* document whose path starts with it, and when the candidate found by the
\* extension, languageId or pattern lookup fails that test the lookup
\* returns undefined, whatever other configs are loaded.
C8_WorkspaceGate ==
  resolved.kind = "document" =>
    LET r == resolved.result
        c == Candidate(RCur, resolved.document)
    IN /\ r # 0 => InScope(configs[r], resolved.document)
       /\ (c # 0 /\ ~InScope(configs[c], resolved.document)) => r = 0
       /\ (c # 0 /\ InScope(configs[c], resolved.document)) => r = c

\* The lookup returned undefined for a candidate out of scope although an
\* enabled config for the document's languageId is loaded and in scope.
C8_Witness ==
  /\ resolved.kind = "document"
  /\ resolved.result = 0
  /\ Candidate(RCur, resolved.document) # 0
  /\ ~InScope(configs[Candidate(RCur, resolved.document)], resolved.document)
  /\ \E i \in 1..Len(configs) :
       /\ Enabled(i)
       /\ configs[i].languageId = resolved.document.languageId
       /\ Truthy(configs[i].workspacePattern)
       /\ InScope(configs[i], resolved.document)

\* Two enabled configs with distinct languageIds declare the extension.
SharedExt(ext) ==
  \E i, j \in 1..Len(configs) :
    /\ Enabled(i) /\ Enabled(j)
    /\ configs[i].languageId # configs[j].languageId
    /\ Declares(configs[i], ext) /\ Declares(configs[j], ext)

\* The last enabled config, in load order, that declares the extension.
LastDeclaring(ext) ==
  CHOOSE i \in 1..Len(configs) :
    /\ Enabled(i) /\ Declares(configs[i], ext)
    /\ \A j \in (i + 1)..Len(configs) :
         ~(Enabled(j) /\ Declares(configs[j], ext))

\* C9, read literally: when two enabled configs with distinct languageIds
\* declare the extension of a document, resolving it yields the one later
\* in load order.
C9_LastWriteWins ==
  (Loaded /\ resolved.kind = "document"
          /\ SharedExt(ExtName(resolved.document.fileName))) =>
    resolved.result = LastDeclaring(ExtName(resolved.document.fileName))

\* C9, within scope: when two enabled configs with distinct languageIds
\* declare the extension of a document, resolving it yields the one later
\* in load order, provided the document is in the scope of that config (the
\* config has no workspacePattern or the path starts with it).
C9_LastWriteWinsInScope ==
  (Loaded /\ resolved.kind = "document"
          /\ SharedExt(ExtName(resolved.document.fileName))
          /\ InScope(configs[LastDeclaring(ExtName(resolved.document.fileName))],
                     resolved.document)) =>
    resolved.result = LastDeclaring(ExtName(resolved.document.fileName))

\* A document resolved to the later of two configs read from different
\* sources.
C9_Witness ==
  /\ Loaded
  /\ resolved.kind = "document"
  /\ SharedExt(ExtName(resolved.document.fileName))
  /\ resolved.result = LastDeclaring(ExtName(resolved.document.fileName))
  /\ \E i \in 1..(resolved.result - 1) :
       /\ Enabled(i)
       /\ Declares(configs[i], ExtName(resolved.document.fileName))
       /\ configs[i].workspacePattern
            # configs[resolved.result].workspacePattern

Perms(n) == Permutations(1..n)
\* The resolver had the configs been loaded in the order pi.
Permuted(R, pi) ==
  BuildMaps(ClearMaps([R EXCEPT !.configs =
                         [i \in 1..Len(R.configs) |-> R.configs[pi[i]]]]))
\* The config getConfigForDocument returns, as a set of at most one.
Returned(R, document) ==
  LET r == GetConfigForDocument(R, document)
  IN IF r = 0 THEN {} ELSE {R.configs[r]}
Disjoint(cfgs) ==
  \A i, j \in 1..Len(cfgs) :
    i # j => NormalizedExts(cfgs[i]) \cap NormalizedExts(cfgs[j]) = {}
\* configs[j] is the one enabled config that declares ext, and a disabled
\* one declares it too.
EnabledAmongDisabled(j, ext) ==
  /\ Enabled(j) /\ Declares(configs[j], ext)
  /\ \E i \in 1..Len(configs) : ~Enabled(i) /\ Declares(configs[i], ext)
  /\ \A i \in 1..Len(configs) :
       (Enabled(i) /\ Declares(configs[i], ext)) => i = j

\* The documents and configs C10 speaks of: the config declares the
\* document's extension and either all extension sets are disjoint or it is
\* the enabled one among disabled ones.
C10_Cases ==
  {dc \in ResDocs \X (1..Len(configs)) :
     LET ext == ExtName(dc[1].fileName)
     IN \/ Disjoint(configs) /\ Declares(configs[dc[2]], ext)
        \/ EnabledAmongDisabled(dc[2], ext)}
\* The same, for an enabled config the document is in the scope of.
C10_CasesInScope ==
  {dc \in C10_Cases : Enabled(dc[2]) /\ InScope(configs[dc[2]], dc[1])}

\* Each of the cases resolves to its config, as loaded and in every order.
ResolveTo(cases) ==
  /\ \A dc \in cases : Returned(RCur, dc[1]) = {configs[dc[2]]}
  /\ cases # {} =>
       \A pi \in Perms(Len(configs)) :
         LET P == Permuted(RCur, pi)
         IN \A dc \in cases : Returned(P, dc[1]) = {configs[dc[2]]}

\* C10, read literally: with pairwise disjoint extension sets a document resolves
\* to the config that declares its extension, in every order of the list;
\* and an enabled config wins over disabled ones that share the extension,
\* in every order.
C10_OrderIndependent == Loaded => ResolveTo(C10_Cases)

\* C10, within scope: with pairwise disjoint extension sets a document
\* resolves to the enabled config that declares its extension, in every
\* order of the list, provided the document is in the scope of that config;
\* and the one enabled config wins over disabled ones that share the
\* extension, in every order, under the same proviso.
C10_OrderIndependentInScope == Loaded => ResolveTo(C10_CasesInScope)

\* A document resolved by its extension among several configs with
\* disjoint extension sets.
C10_Witness ==
  /\ Loaded
  /\ resolved.kind = "document"
  /\ resolved.result # 0
  /\ Len(configs) > 1
  /\ Disjoint(configs)
  /\ Declares(configs[resolved.result], ExtName(resolved.document.fileName))


\* configs[i] if the document is in its scope, else nothing (0).
Gated(i, document) == IF InScope(configs[i], document) THEN i ELSE 0
\* The enabled configs whose languageId is the document's language tag.
TagHits(document) ==
  {i \in 1..Len(configs) :
     Enabled(i) /\ configs[i].languageId = document.languageId}

\* C11: with no load in flight, getConfigForDocument goes by the extension
\* map hit if there is one; only if there is none, by an enabled config
\* whose languageId is the document's language tag; only if there is none,
\* by the first enabled config in list order with a matching filePattern;
\* it returns what it found if the document is in that config's scope, and
\* undefined otherwise or when no step hits.
C11_Precedence ==
  (Loaded /\ resolved.kind = "document") =>
    LET d == resolved.document
        ext == ExtName(d.fileName)
        r == resolved.result
    IN IF ext \in DOMAIN fileExtensionMap
       THEN r = Gated(fileExtensionMap[ext], d)
       ELSE IF TagHits(d) # {}
       THEN \E i \in TagHits(d) : r = Gated(i, d)
       ELSE IF PatternHit(RCur, d.fileName) # 0
       THEN r = Gated(PatternHit(RCur, d.fileName), d)
       ELSE r = 0


\* The fileExtensions of a config as they are written in its file.
Written(cfg) == {cfg.fileExtensions[k] : k \in 1..Len(cfg.fileExtensions)}
\* key is the map key of an extension written with or without its dot.
KeyOf(key, written) ==
  \/ key = written
  \/ /\ Len(written) = 0 \/ written[1] # "."
     /\ Len(key) = Len(written) + 1
     /\ key[1] = "."
     /\ SubSeq(key, 2, Len(key)) = written

\* C12: every key of fileExtensionMap starts with a dot and is an extension
\* of the config it maps to, as written when written with the dot and with
\* the dot put in front when written without; with no load in flight every
\* extension of an enabled config has its key in the map.
C12_DottedKeys ==
  /\ \A key \in DOMAIN fileExtensionMap :
       /\ key # << >> /\ key[1] = "."
       /\ \E written \in Written(configs[fileExtensionMap[key]]) :
            KeyOf(key, written)
  /\ Loaded =>
       \A i \in 1..Len(configs) : \A written \in Written(configs[i]) :
         Enabled(i) => \E key \in DOMAIN fileExtensionMap : KeyOf(key, written)
\* An extension written without its dot is the only thing behind a key.
C12_Witness ==
  /\ Loaded
  /\ \E key \in DOMAIN fileExtensionMap :
       LET cfg == configs[fileExtensionMap[key]]
       IN /\ key \notin Written(cfg)
          /\ SubSeq(key, 2, Len(key)) \in Written(cfg)


\* An entry that has a non-empty languageId, a non-empty command, a
\* non-empty fileExtensions array and no transport or one of the three.
WellFormed(entry) ==
  /\ entry # Null
  /\ entry.languageId # "" /\ entry.command # ""
  /\ Len(entry.fileExtensions) > 0
  /\ entry.transport \in {"", "stdio", "tcp", "websocket"}
\* What a file should contribute: its well-formed entries, in order.
Contribution(file) ==
  IF file.kind \in {"array", "object"}
  THEN SelectSeq(file.entries, WellFormed) ELSE << >>
\* A config as it is written in its file.
AsWritten(cfg) ==
  IF cfg = Null THEN << >>
  ELSE << cfg.languageId, cfg.command, cfg.fileExtensions, cfg.transport >>
AllWritten(cfgs) == [i \in 1..Len(cfgs) |-> AsWritten(cfgs[i])]

\* C13: when the read of a file settles, the load appends exactly the
\* file's well-formed entries, in order, whatever else the file holds, and
\* nothing for a file that is not JSON; it then goes on to the next file
\* there is.
C13_Step ==
  \A k \in SourceIds :
    (k \in DOMAIN loading /\ loading[k] > 0 /\ loading'[k] = loading[k] - 1)
    => /\ AllWritten(configs')
            = AllWritten(configs) \o AllWritten(Contribution(FileOf(k)))
       /\ \A n \in DOMAIN loading :
            (n > k /\ FileOf(n).kind # "missing"
                   /\ \A m \in (k + 1)..(n - 1) : FileOf(m).kind = "missing")
            => loading'[n] = loading[n] + 1
C13_NonFatal == [][C13_Step]_vars


\* ----------------------------------------------------------- stopAllClients
\* C14: stopAllClients issues a stop for every identity of the clients map
\* (its record is removed on the spot or a stopClient call waits for its
\* client), a stop that throws removes its record like one that resolves,
\* and when the call completes with no ensure, start or restart in between,
\* the clients map and the document sets are empty.
C14_Issued ==
  last'.op = "stopAll" =>
    \A l \in DOMAIN clients :
      \/ l \notin DOMAIN clients'
      \/ [lang |-> l, client |-> clients[l]] \in stops'
C14_Completed ==
  (stopAllCall.state # "done" /\ stopAllCall'.state = "done"
     /\ stopAllCall'.alone)
  => clients' = << >> /\ documentTracking' = << >>
C14_StopAll == [][C14_Issued /\ C14_Completed]_vars


\* ------------------------------------------------------------ restartClient
\* C15: restartClient(id) starts nothing in the turn that suspends it on
\* the stop of id's client; in the turn in which its stopClient has
\* finished it looks id up in the resolver's languageId map: with an entry
\* it starts a new client, with no document, under a new record that holds
\* the entry's config; with no entry it starts nothing and id has no
\* record.
NoneStarted == \A c \in ClientIds : lib'[c] = "starting" => lib[c] = "starting"
C15_Suspended ==
  last'.op = "restart" =>
    /\ ~last'.out.started
    /\ NoneStarted /\ clients' = clients
    /\ \E call \in stops' : call.lang = last'.lang
C15_Continued ==
  last'.op = "restarted" =>
    LET id == last'.lang
    IN /\ \A call \in restartCalls \ restartCalls' : call \notin stops'
       /\ IF id \in DOMAIN languageIdMap
          THEN /\ last'.out.started
               /\ id \in DOMAIN clients'
               /\ lib[clients'[id]] = "none"
               /\ lib'[clients'[id]] = "starting"
               /\ startP'[clients'[id]] = [state |-> "pending", doc |-> NoDoc]
               /\ info'[clients'[id]].config.languageId = id
               /\ info'[clients'[id]].config.command
                    = configs[languageIdMap[id]].command
          ELSE /\ ~last'.out.started
               /\ id \notin DOMAIN clients'
               /\ NoneStarted
C15_RestartClient == [][C15_Suspended /\ C15_Continued]_vars
\* A restartClient whose stopClient waited for client.stop() went on to
\* start the resolver's config, which is not the one the record had.
C15_Witness ==
  /\ last.op = "restarted" /\ last.out.started
  /\ \E c \in ClientIds : c # clients[last.lang] /\ lib[c] = "stopped"
  /\ info[clients[last.lang]].config.command = "srv-a2"
\* A restartClient of an identity the resolver has no config for left no
\* record where there was one.
C15_WitnessNoConfig ==
  /\ last.op = "restarted" /\ ~last.out.started
  /\ last.lang \notin DOMAIN clients
  /\ \E c \in ClientIds : c[1] = last.lang /\ lib[c] # "none"


\* --------------------------------------------------------- getActiveServers
\* Position of key in a Map's iteration order, 0 when it is not a key.
PositionIn(order, key) ==
  IF \E i \in 1..Len(order) : order[i] = key
  THEN CHOOSE i \in 1..Len(order) : order[i] = key ELSE 0
\* Insertion order of the clients map: keys that stay keep their order, and
\* a key that is new, or was deleted and set again, comes last.
C16_InsertionOrder ==
  /\ \A k1, k2 \in DOMAIN clients \cap DOMAIN clients' :
       (PositionIn(clientOrder, k1) < PositionIn(clientOrder, k2))
         = (PositionIn(clientOrder', k1) < PositionIn(clientOrder', k2))
  /\ \A k \in DOMAIN clients' \ DOMAIN clients :
       PositionIn(clientOrder', k) = Cardinality(DOMAIN clients')
  /\ Len(clientOrder') = Cardinality(DOMAIN clients')
\* The array getActiveServers returns: for every record, whatever its
\* status, one entry with the record's values at the call, at the record's
\* place in the map's order, and no other entry.
C16_OnePerRecord ==
  last'.op = "list" =>
    /\ Len(servers') = Cardinality(DOMAIN clients)
    /\ \A l \in DOMAIN clients :
         LET i == PositionIn(clientOrder, l)
         IN /\ i \in 1..Len(servers')
            /\ servers'[i] =
                 [languageId |-> l,
                  command |-> info[clients[l]].config.command,
                  status |-> info[clients[l]].status,
                  documentCount |-> info[clients[l]].documentCount]
\* The returned array stays as it is while the records change.
C16_Copies ==
  (\/ last'.op \in {"event2", "event3", "started", "startFailed"}
   \/ last'.op = "stopped" /\ stops' # stops)
  => servers' = servers

\* C16: getActiveServers returns exactly one entry {languageId, command,
\* status, documentCount} per record of the clients map, whatever the
\* record's status, with the record's values at the call, in the map's
\* insertion order; what it returned does not change when a record changes
\* later.
C16_ListActive ==
  [][C16_InsertionOrder /\ C16_OnePerRecord /\ C16_Copies]_vars
\* A returned array with "a" in status 'error' after "b", whose record has
\* changed since from 'starting' to 'running'.
C16_Witness ==
  /\ Len(servers) = 2
  /\ servers[1].languageId = "b" /\ servers[1].status = "starting"
  /\ servers[2].languageId = "a" /\ servers[2].status = "error"
  /\ "b" \in DOMAIN clients /\ info[clients["b"]].status = "running"


\* ------------------------------------------------------------ trackDocument
\* The document set of an identity, empty when the map has none.
DocumentSet(tracking, languageId) ==
  IF languageId \in DOMAIN tracking THEN tracking[languageId] ELSE {}
\* The turn ran trackDocument(last'.lang, last'.doc): ensureClientForConfig
\* on a record that absorbs, or startClient after its start resolved.
Tracked ==
  \/ last'.op = "ensure" /\ ~last'.out.started
  \/ last'.op = "started" /\ last'.doc # NoDoc

\* C17: trackDocument(languageId, uri) with uri already in the identity's
\* document set leaves the set and the record's documentCount as they are;
\* with a new uri it adds the uri and increases documentCount by one; and
\* after it the documentCount of the identity's record is the size of the
\* set.
C17_Step ==
  Tracked =>
    LET l == last'.lang
        old == DocumentSet(documentTracking, l)
        new == DocumentSet(documentTracking', l)
    IN /\ clients' = clients
       /\ new = old \cup {last'.doc}
       /\ HasRecord(l) =>
            /\ info'[clients[l]].documentCount
                 = info[clients[l]].documentCount
                     + (IF last'.doc \in old THEN 0 ELSE 1)
            /\ info'[clients[l]].documentCount = Cardinality(new)
C17_TrackIdempotent == [][C17_Step]_vars


\* ----------------------------------------------------------- crash recovery
\* A state change to "stopped" of an identity with a record sets the
\* record's status and, below the cap, leaves a live restart timer.
C18_Scheduled ==
  \A l \in MainLangs :
    (last'.op = "event3" /\ last'.lang = l /\ HasRecord(l))
    => /\ info'[clients[l]].status = "stopped"
       /\ info[clients[l]].restartCount < MaxRestarts
            => /\ last'.out.scheduled
               /\ l \in DOMAIN restartTimers'
               /\ restartTimers'[l] = "live"
\* The turn that scheduled a restart of l for a record that holds config.
CrashOf(l, config) ==
  /\ last.op = "event3" /\ last.lang = l /\ last.out.scheduled
  /\ HasRecord(l) /\ info[clients[l]].config = config
\* The restart timer of l has started a client with config.
RestartedWith(l, config) ==
  /\ last.op = "timer" /\ last.lang = l /\ last.out.started
  /\ HasRecord(l) /\ info[clients[l]].config = config
\* An explicit stop of l took a turn, or a 'running' transition canceled
\* the timer of l.
StoppedOrRunning(l) ==
  \/ last.op \in {"stop", "stopped", "stopThrew"} /\ last.lang = l
  \/ last.op = "event2" /\ last.lang = l /\ last.out.canceled
\* MaxClients clients of l are alive: the timer of l cannot start another.
AtMaxClients(l) == HasRecord(l) /\ ~HasSlot(Cur, l)

\* C18, read literally: a state change to "stopped" of an identity with a
\* record sets the status 'stopped' and, with automatic restart on and the
\* cap not reached, schedules a restart; unless an explicit stop or a
\* 'running' transition cancels it, the timer eventually starts a client
\* with the config of the record that stopped.
C18_Restarted ==
  \A l \in MainLangs, config \in CrashConfigs :
    CrashOf(l, config)
      ~> (RestartedWith(l, config) \/ StoppedOrRunning(l) \/ AtMaxClients(l))
C18_TimerConfig ==
  \A l \in MainLangs :
    (last'.op = "timer" /\ last'.lang = l /\ last'.out.started)
    => /\ HasRecord(l)
       /\ info'[clients'[l]].config = info[clients[l]].config
       /\ clients'[l] # clients[l]
\* C18, with the config of the current record: a state change to "stopped"
\* of an identity with a record sets the status 'stopped' and, with
\* automatic restart on and the cap not reached, schedules a restart;
\* unless an explicit stop or a 'running' transition cancels it, the timer
\* eventually starts a client, with the config of the record that the map
\* holds for the identity at that time.
C18_RestartedCurrent ==
  \A l \in MainLangs :
    (\E config \in CrashConfigs : CrashOf(l, config))
      ~> ((\E config \in CrashConfigs : RestartedWith(l, config))
            \/ StoppedOrRunning(l) \/ AtMaxClients(l))
C19_NoTimer ==
  ~autoRestart =>
    /\ restartTimers = << >>
    /\ \A l \in Langs : liveTimers[l] = 0
    /\ last.op # "timer" /\ ~last.out.scheduled
\* With the setting off, a failed start and a "stopped" transition leave
\* the identity's record in the map, with status 'error' and 'stopped', and
\* start nothing; such a record leaves the map by stopClient only and is
\* replaced by ensureClientForConfig only.
C19_RecordStays ==
  ~autoRestart =>
    \A l \in MainLangs :
      /\ (last'.op \in {"startFailed", "event3"} /\ last'.lang = l
            /\ HasRecord(l))
         => /\ clients' = clients
            /\ ~last'.out.started
            /\ info'[clients[l]].status =
                 (IF last'.op = "event3" THEN "stopped" ELSE "error")
      /\ (HasRecord(l) /\ StatusOf(l) \in {"error", "stopped"})
         => /\ l \notin DOMAIN clients'
                 => last'.op \in {"stopped", "stopThrew"}
            /\ (l \in DOMAIN clients' /\ clients'[l] # clients[l])
                 => last'.op = "ensure"

\* C19: with genericLspProxy.autoRestart false no restart timer is ever
\* scheduled and nothing is started after a failed start or a "stopped"
\* transition; the record stays in the map with status 'error' or
\* 'stopped'.
C19_AutoRestartOff == []C19_NoTimer /\ [][C19_RecordStays]_vars
\* With the setting off, a start has failed and its record is in the map
\* with status 'error'.
C19_Witness ==
  /\ ~autoRestart
  /\ last.op = "startFailed"
  /\ HasRecord(last.lang) /\ StatusOf(last.lang) = "error"
  /\ \E i \in 1..Len(GetActiveServers) :
       GetActiveServers[i].status = "error"


\* ------------------------------------------------------------ tcp transport
\* The options built last were built for a tcp configuration with a port.
TcpBuilt ==
  /\ built.op = "create"
  /\ built.config.transport = "tcp" /\ built.config.tcpPort # NoPort
\* For such a configuration the builder returns a function.
C20_Deferred == TcpBuilt => serverOptions.kind = "function"
\* Building opens no socket; a socket appears in a call of the function
\* only, one per call, connecting to the tcpPort of the configuration the
\* function was built for, with a pending promise of its own; the sockets
\* there were stay; a pending promise settles on an event of its socket
\* only: resolved with that socket as reader and writer on 'connect',
\* rejected on 'error'.
C20_Step ==
  /\ built'.op = "create" => sockets' = sockets /\ streams' = streams
  /\ Len(sockets') # Len(sockets) => built'.op = "invoke"
  /\ built'.op = "invoke"
     => /\ serverOptions.kind = "function"
        /\ Len(sockets') = Len(sockets) + 1
        /\ SubSeq(sockets', 1, Len(sockets)) = sockets
        /\ SubSeq(streams', 1, Len(streams)) = streams
        /\ sockets'[Len(sockets')] =
             [port |-> serverOptions.config.tcpPort, state |-> "connecting"]
        /\ Len(streams') = Len(sockets')
        /\ streams'[Len(streams')].state = "pending"
  /\ \A i \in 1..Len(streams) :
       streams[i].state = "pending"
       => /\ (built'.op = "connect" /\ built'.socket = i)
             => streams'[i] = [state |-> "resolved", writer |-> i,
                               reader |-> i]
          /\ (built'.op = "error" /\ built'.socket = i)
             => streams'[i].state = "rejected"
          /\ ~(built'.op \in {"connect", "error"} /\ built'.socket = i)
             => streams'[i] = streams[i]

\* C20: for a config with transport 'tcp' and a tcpPort the builder returns
\* a function; no socket is opened until the function is called, each call
\* opens a new socket to tcpPort, and the promise of the call resolves with
\* the socket as reader and writer on the socket's 'connect' or rejects on
\* its 'error'.
C20_TcpConnector == []C20_Deferred /\ [][C20_Step]_vars
\* One function has been called twice, for two sockets to its port, of
\* which one has connected and the other failed.
C20_Witness ==
  /\ serverOptions.kind = "function"
  /\ \E i, j \in 1..Len(sockets) :
       /\ i # j
       /\ sockets[i].port = serverOptions.config.tcpPort
       /\ sockets[j].port = serverOptions.config.tcpPort
       /\ streams[i].state = "resolved" /\ streams[j].state = "rejected"


\* ---------------------------------------------------------- stdio transport
\* The options built last were built for a configuration whose transport is
\* absent or 'stdio'.
StdioBuilt ==
  built.op = "create" /\ built.config.transport \in {"", "stdio"}

\* C21: for a stdio config the builder returns an Executable with the
\* config's command, with the config's args or no argument when the config
\* has none, and with the process environment in which every variable the
\* config's env defines has the config's value.
C21_StdioExecutable ==
  StdioBuilt =>
    LET config == built.config
        env == serverOptions.options.env
        over == IF config.env = Absent THEN << >> ELSE config.env[1]
    IN /\ serverOptions.kind = "executable"
       /\ serverOptions.transport = "stdio"
       /\ serverOptions.command = config.command
       /\ serverOptions.args =
            (IF config.args = Absent THEN << >> ELSE config.args[1])
       /\ DOMAIN env = DOMAIN ProcessEnv \cup DOMAIN over
       /\ \A k \in DOMAIN over : env[k] = over[k]
       /\ \A k \in DOMAIN ProcessEnv \ DOMAIN over : env[k] = ProcessEnv[k]
\* Options were built for a stdio config without args whose env defines a
\* variable of the process environment and one of its own.
C21_Witness ==
  /\ StdioBuilt
  /\ built.config.args = Absent
  /\ built.config.env # Absent
  /\ serverOptions.args = << >>
  /\ \E k \in DOMAIN built.config.env[1] :
       k \in DOMAIN ProcessEnv /\ serverOptions.options.env[k] # ProcessEnv[k]
  /\ \E k \in DOMAIN built.config.env[1] : k \notin DOMAIN ProcessEnv


\* ------------------------------------------------------ websocket transport
\* The options built last were built for a websocket configuration with a
\* URL.
WebsocketBuilt ==
  /\ built.op = "create"
  /\ built.config.transport = "websocket"
  /\ built.config.websocketUrl # ""

\* C22: for a config with transport 'websocket' and a websocketUrl the
\* builder returns a function that connects to the URL, and no Executable
\* that spawns the config's command over stdio.
C22_WebsocketConnector ==
  WebsocketBuilt =>
    /\ serverOptions.kind = "function"
    /\ serverOptions.config.websocketUrl = built.config.websocketUrl
\* What the builder returns for such a config: the Executable of its command.
C22_Spawned ==
  WebsocketBuilt =>
    /\ serverOptions.kind = "executable"
    /\ serverOptions.command = built.config.command
    /\ serverOptions.transport = "stdio"


\* ------------------------------------------------------------ leaked server
\* A client that was started and is not stopped.
Live(c) == lib[c] \in {"starting", "running"}

\* C23: every client that was started and has not stopped is the client of
\* the record the clients map holds for its languageId.
C23_NoLeakedServer ==
  \A c \in ClientIds : Live(c) => HasRecord(c[1]) /\ clients[c[1]] = c


\* ----------------------------------------------------- reload configuration
\* The reload command and the starts it issued have settled.
ReloadSettled ==
  reloadCmd = "resolved" /\ \A c \in ClientIds : startP[c].state # "pending"
\* The identity open document i resolves to, "" when it is no file or
\* resolves to no configuration.
IdentityOf(i) ==
  LET doc == TextDocuments[i]
      k == GetConfigForDocument(RCur, doc.document)
  IN IF doc.scheme # "file" \/ k = 0 THEN "" ELSE configs[k].languageId
IsTracked(i) ==
  /\ HasRecord(IdentityOf(i))
  /\ IdentityOf(i) \in DOMAIN documentTracking
  /\ TextDocuments[i].uri \in documentTracking[IdentityOf(i)]
\* The command goes from the load to stopAllClients when the load is
\* complete, stopAllClients stops or removes every record, and the command
\* goes on to the documents when the clients map is empty.
C24_Order ==
  /\ (reloadCmd = "loading" /\ reloadCmd' = "stopping")
     => /\ Loading = 0
        /\ \A l \in DOMAIN clients :
             \/ l \notin DOMAIN clients'
             \/ [lang |-> l, client |-> clients[l]] \in stops'
  /\ (reloadCmd = "stopping" /\ reloadCmd' = "resolved")
     => clients = << >> /\ stops = {}

SetSize(languageId) ==
  IF languageId \in DOMAIN documentTracking
  THEN Cardinality(documentTracking[languageId]) ELSE 0

\* C25: every record's documentCount is the size of the document set of its
\* languageId, 0 when there is no set.
C25_CountIsSetSize ==
  \A l \in DOMAIN clients : info[clients[l]].documentCount = SetSize(l)


\* -------------------------------------------------- record and document set
\* C26: documentTracking has an entry for a languageId exactly when the
\* clients map has a record for it.
C26_ExistTogether == DOMAIN documentTracking = DOMAIN clients
\* One half of it: every document set belongs to a record.
C26_SetHasRecord == DOMAIN documentTracking \subseteq DOMAIN clients


\* ------------------------------------------------------ one timer at a time
\* C27: at most one restart timer of a languageId is pending, and it is the
\* one the restartTimers map refers to.
C27_OneTimer ==
  \A l \in Langs :
    /\ liveTimers[l] <= 1
    /\ liveTimers[l] = 1
       => l \in DOMAIN restartTimers /\ restartTimers[l] = "live"
\* A restart was scheduled while a timer of the identity was pending: the
\* turn cleared that timer and set a new one.
C27_Witness ==
  /\ last.out.scheduled /\ last.out.canceled
  /\ liveTimers[last.lang] = 1


\* --------------------------------------------------- one failure, one restart
\* C28: when one start attempt fails and no other, whatever the order and
\* the delay of its "stopped" state change and its rejection, restart
\* timers start at most one client.
C28_OneRestart == \A l \in MainLangs : attempts[l] <= 1


\* --------------------------------------------------------- restart-eligible
\* A turn that schedules a restart leaves the identity's record 'stopped' or
\* 'error'; a timer turn that starts a client finds it so.
C29_Step ==
  /\ last'.out.scheduled
     => /\ last'.lang \in DOMAIN clients'
        /\ info'[clients'[last'.lang]].status \in {"stopped", "error"}
  /\ (last'.op = "timer" /\ last'.out.started)
     => /\ HasRecord(last'.lang)
        /\ StatusOf(last'.lang) \in {"stopped", "error"}

\* C29: an automatic restart is scheduled, and a restart timer starts a
\* client, only for an identity whose record has status 'stopped' or 'error'.
C29_RestartEligible == [][C29_Step]_vars
\* The half about scheduling.
C29_ScheduledEligible ==
  [][last'.out.scheduled
       => /\ last'.lang \in DOMAIN clients'
          /\ info'[clients'[last'.lang]].status \in {"stopped", "error"}]_vars


\* ---------------------------------------------------------------- stop wins
\* C30: when stopClient(id) has completed, no restart timer of id is
\* pending, so that no timer set before or during the stop starts a client
\* afterwards.
C30_StopWins ==
  last.op \in {"stopped", "stopThrew"} => liveTimers[last.lang] = 0

\* ------------------------------------------------------------ launch failure
\* The turn of startClient's catch block, for an identity that has a record:
\* the map keeps the same record, which gets status 'error' and the failure
\* message; scheduleRestart has run (it set a timer or gave up, unless
\* autoRestart is off); the suspended startClient call has ended and no
\* client was started or stopped by the turn.
C31_Step ==
  \A l \in MainLangs :
    (last'.op = "startFailed" /\ last'.lang = l /\ HasRecord(l))
    => /\ clients' = clients /\ clientOrder' = clientOrder
       /\ info'[clients[l]].status = "error"
       /\ info'[clients[l]].lastError = "err"
       /\ info'[clients[l]].config = info[clients[l]].config
       /\ documentTracking' = documentTracking
       /\ autoRestart => last'.out.scheduled \/ last'.out.gaveUp
       /\ last'.out.scheduled
            => l \in DOMAIN restartTimers' /\ restartTimers'[l] = "live"
       /\ ~last'.out.started
       /\ \E c \in ClientIds :
            /\ c[1] = l /\ startP[c].state = "pending"
            /\ startP'[c].state # "pending"

\* C31: a start that fails is caught in startClient: the identity's record
\* stays in the clients map with status 'error' and lastError set, and
\* scheduleRestart is called; the record is not removed.
C31_LaunchFailure == [][C31_Step]_vars
\* A start has failed with autoRestart on: the record is in the map with
\* status 'error' and a restart timer is set.
C31_Witness ==
  /\ autoRestart
  /\ last.op = "startFailed" /\ last.out.scheduled
  /\ HasRecord(last.lang) /\ StatusOf(last.lang) = "error"
  /\ info[clients[last.lang]].lastError = "err"
  /\ liveTimers[last.lang] > 0

\* ------------------------------------------------- event without a record
\* A state change reported for an identity the clients map has no record
\* of changes neither the map, nor a ClientInfo, nor a document set, nor a
\* timer, and the turn starts, schedules, cancels and emits nothing.
C32_Step ==
  \A l \in MainLangs :
    (last'.op \in {"event2", "event3"} /\ last'.lang = l /\ ~HasRecord(l))
    => /\ clients' = clients /\ clientOrder' = clientOrder
       /\ info' = info
       /\ documentTracking' = documentTracking
       /\ restartTimers' = restartTimers /\ liveTimers' = liveTimers
       /\ stops' = stops
       /\ \A c \in ClientIds :
            startP'[c].state = "pending" => startP'[c] = startP[c]
       /\ last'.out = NoOut

\* C32: handleClientStateChange for a languageId without a record returns
\* at once: no record is created or changed, no document set and no timer
\* is touched, no restart is scheduled and 'serversChanged' is not emitted.
C32_NoRecordNoOp == [][C32_Step]_vars
\* A client whose record was removed (its stop threw) reported a state
\* change, and the identity has no record.
C32_Witness ==
  /\ last.op \in {"event2", "event3"}
  /\ last.lang \in MainLangs /\ ~HasRecord(last.lang)
  /\ last.out = NoOut

\* -------------------------------------------------- lookups during a load
\* What a load of the disk yields when nothing interrupts it.  The files do
\* not change in SpecLoads and nothing is disabled, so this is both the
\* configuration before a reload and the one after it.
CompleteLoad ==
  LoadedResolver([configs |-> << >>, ext |-> << >>, id |-> << >>,
                  disabledLspConfigs |-> << >>])
\* The config the last getConfigForDocument call returned, as a set.
LastReturned ==
  IF resolved.result = 0 THEN {} ELSE {configs[resolved.result]}

\* C33: a getConfigForDocument call made while loadConfiguration awaits a
\* file returns what it returns for the completely loaded configuration
\* (the previous one or the new one), never the result of an empty or
\* partly loaded list and maps.
C33_Wholesale ==
  (resolved.kind = "document" /\ Loading > 0)
  => LastReturned = Returned(CompleteLoad, resolved.document)

\* ---------------------------------------------------------- overlapping loads
\* C37: when no loadConfiguration call is in flight any more, the list holds
\* what one load of the disk yields, every valid entry of every file once,
\* and the maps are those buildMaps makes of that list, also when two
\* loads have interleaved at their file reads.
C37_NoDuplicates ==
  Loading = 0
  => /\ configs = CompleteLoad.configs
     /\ fileExtensionMap = CompleteLoad.ext
     /\ languageIdMap = CompleteLoad.id

\* ------------------------------------------------ configs scoped to folders
\* configs[i] and configs[j] are enabled, each is scoped by its
\* workspacePattern to a workspace folder of its own, and both declare the
\* document's extension or both carry its languageId.
ScopedPair(i, j, document) ==
  /\ i # j /\ Enabled(i) /\ Enabled(j)
  /\ \E m, n \in 1..Len(workspaceFolders) :
       /\ m # n
       /\ configs[i].workspacePattern = workspaceFolders[m]
       /\ configs[j].workspacePattern = workspaceFolders[n]
  /\ \/ /\ Declares(configs[i], ExtName(document.fileName))
        /\ Declares(configs[j], ExtName(document.fileName))
     \/ /\ configs[i].languageId = document.languageId
        /\ configs[j].languageId = document.languageId

\* C34: of two enabled configs that share an extension or a languageId and
\* are scoped to two different workspace folders, a document under the
\* folder of one resolves to that one, in whichever order they were loaded.
C34_NoCollision ==
  (resolved.kind = "document" /\ Loading = 0)
  => \A i, j \in 1..Len(configs) :
       (ScopedPair(i, j, resolved.document)
          /\ InScope(configs[i], resolved.document))
       => resolved.result = i

\* ------------------------------------------------------------ add-only sets
\* A turn that is not the removal of stopClient keeps every document set
\* and every document in it; a state change, a failed start, a restart
\* timer and the suspending part of stopClient leave the sets as they are.
C35_Step ==
  /\ \A l \in DOMAIN documentTracking :
       ~(last'.op \in {"stopped", "stopThrew"} /\ last'.lang = l)
       => /\ l \in DOMAIN documentTracking'
          /\ documentTracking[l] \subseteq documentTracking'[l]
  /\ last'.op \in {"event2", "event3", "startFailed", "timer", "stop"}
       => documentTracking' = documentTracking

\* C35: a document set only grows until stopClient removes it: state
\* changes, failed starts and automatic restarts leave it unchanged, so the
\* documents tracked before a crash are tracked after the restart.
C35_AddOnly == [][C35_Step]_vars
\* A restart timer has started a client for an identity that crashed with
\* two documents tracked, and both are still tracked.
C35_Witness ==
  /\ last.op = "timer" /\ last.out.started
  /\ last.lang \in DOMAIN documentTracking
  /\ documentTracking[last.lang] = Docs

\* -------------------------------------------------------- superseded clients
\* Client c has reported a state change in this turn.
Reported(c) ==
  /\ last'.op \in {"event2", "event3"} /\ last'.lang = c[1]
  /\ lib[c] \in {"starting", "running"} /\ lib'[c] # lib[c]
\* The clients map holds the record of another, newer client of c's
\* identity.
Superseded(c) == HasRecord(c[1]) /\ clients[c[1]] # c

C36_Step ==
  \A c \in ClientIds :
    (Reported(c) /\ Superseded(c))
    => /\ info'[clients[c[1]]].status = info[clients[c[1]]].status
       /\ info'[clients[c[1]]].restartCount = info[clients[c[1]]].restartCount
       /\ ~last'.out.scheduled

\* C36: a state change reported by a client whose record has been replaced
\* by a newer record of the same languageId changes neither the status nor
\* the restartCount of the current record and schedules no restart for it.
C36_SupersededIgnored == [][C36_Step]_vars

\* ------------------------------------------------------------------ stop race
\* The turn before was ensureClientForConfig(l, d) with a stopClient(l) call
\* suspended on client.stop(), and this turn is the completion of that
\* stopClient: afterwards d is in the document set of l's record, or a
\* startClient call that carries d is pending.
C38_Step ==
  \A l \in MainLangs, d \in Docs :
    (/\ last.op = "ensure" /\ last.lang = l /\ last.doc = d
     /\ \E call \in stops : call.lang = l
     /\ last'.op \in {"stopped", "stopThrew"} /\ last'.lang = l)
    => \/ /\ l \in DOMAIN clients' /\ l \in DOMAIN documentTracking'
          /\ d \in documentTracking'[l]
       \/ \E c \in ClientIds :
            /\ c[1] = l
            /\ startP'[c] = [state |-> "pending", doc |-> d]

\* C38: a document handed to ensureClientForConfig while stopClient of the
\* same identity awaits client.stop() is not lost when the stop completes:
\* it is tracked under a record of the identity, or a start was issued
\* for it.
C38_NoDroppedDocument == [][C38_Step]_vars

\* ------------------------------------------------------ persisted disabling
\* No languageId is twice in the persisted list.
NoDuplicates(list) ==
  \A m, n \in 1..Len(list) : list[m] = list[n] => m = n
\* configs[i] is the value of an entry of one of the lookup maps.
InMaps(i) ==
  \/ \E ext \in DOMAIN fileExtensionMap : fileExtensionMap[ext] = i
  \/ \E id \in DOMAIN languageIdMap : languageIdMap[id] = i

\* C39: with no load in flight, after any markConfigAsDisabled, enableConfig
\* and loadConfiguration calls, the persisted list has no duplicates and a
\* loaded config is flagged disabled exactly when its languageId is in the
\* list, and then it is in neither lookup map.
C39_PersistedConsistent ==
  Loading = 0
  => /\ NoDuplicates(disabledLspConfigs)
     /\ \A i \in 1..Len(configs) :
          /\ IsDisabled(configs[i])
               <=> Includes(disabledLspConfigs, configs[i].languageId)
          /\ IsDisabled(configs[i]) => ~InMaps(i)
\* The half about the list alone.
C39_ListHasNoDuplicates == NoDuplicates(disabledLspConfigs)

\* ------------------------------------------------------------ serversChanged
\* Nothing is in flight: no start, no stop, no load and no restart timer.
Quiescent == Quiet /\ \A l \in Langs : liveTimers[l] = 0

\* A turn that changes what getActiveServers returns and leaves nothing in
\* flight has emitted 'serversChanged'.
C40_Step ==
  (GetActiveServers' # GetActiveServers /\ Quiescent')
  => last'.out.emitted
\* The same for the turns other than a failed start.
C40_StepButFailure ==
  (GetActiveServers' # GetActiveServers /\ Quiescent'
     /\ last'.op # "startFailed")
  => last'.out.emitted

\* C40: every change of what getActiveServers returns is followed by a
\* 'serversChanged' notification before nothing is in flight any more,
\* also when a start fails and the status becomes 'error'.
C40_NeverStale == [][C40_Step]_vars
\* The same without the failed starts.
C40_NeverStaleButFailure == [][C40_StepButFailure]_vars

====
